---- MODULE Spec2Model ----
(***************************************************************************)
(* Model of the work-hour backend (backend/src): the eligibility rule of   *)
(* utils.rs, and the create / update / delete / get handlers of main.rs    *)
(* acting on the work-hours table of the Records Service through the       *)
(* client of teable.rs.                                                    *)
(*                                                                         *)
(* Text values (dates, birth dates) are records [kind, y, m, d, hh, off]:  *)
(*   "null"     the JSON field is absent / null                            *)
(*   "empty"    ""                                                         *)
(*   "blank"    "  " (whitespace only)                                     *)
(*   "text"     text that is no date ("05.03.2024")                        *)
(*   "plain"    "YYYY-MM-DD" with the digits y, m, d                       *)
(*   "naive"    "YYYY-MM-DDThh:00:00"       (date-time without an offset)  *)
(*   "datetime" "YYYY-MM-DDThh:00:00+off:00" (RFC 3339, off in hours)      *)
(***************************************************************************)
EXTENDS Integers, Sequences, FiniteSets, TLC

VARIABLES store, nextId, today, last, inflight, elig, dash, auth, database,
          token_store, locks, procs, clock

vars == <<store, nextId, today, last, inflight, elig, dash, auth, database,
          token_store, locks, procs, clock>>

\* the state of the password resets: the TokenStore and its two locks, the
\* operations and requests under way, and the clock in hours
resets == <<token_store, locks, procs, clock>>

\* the state of the accounts: sessions, passwords and password resets
acct == <<auth, database, resets>>

-----------------------------------------------------------------------------
(* Bounds of the model *)

\* the clock starts in December of StartYear - 1
StartYear == 2024
\* months the clock may advance
MaxTicks == 2
\* work-hour records the Records Service may create
MaxEntries == 2
\* create requests that may be between their duplicate check and their write
MaxInFlight == 2
\* birth years range over eligYear - MaxAge .. eligYear
MaxAge == 72

(* Program constants *)

\* utils.rs: age_in_current_year >= 17
MinAge == 17
\* utils.rs: age_in_current_year < 70
AgeLimit == 70
\* utils.rs: 8.0, the standard required hours
StandardHours == 8
\* main.rs: current_month == 1, the grace month
GraceMonth == 1
\* teable.rs: duration_seconds / 3600.0
SecondsPerHour == 3600

-----------------------------------------------------------------------------
(* Calendar and text values *)

Str(kind, y, m, d, hh, off) ==
    [kind |-> kind, y |-> y, m |-> m, d |-> d, hh |-> hh, off |-> off]

Null == Str("null", 0, 0, 0, 0, 0)
Empty == Str("empty", 0, 0, 0, 0, 0)
Blank == Str("blank", 0, 0, 0, 0, 0)
Text == Str("text", 0, 0, 0, 0, 0)
Plain(y, m, d) == Str("plain", y, m, d, 0, 0)
Naive(y, m, d, hh) == Str("naive", y, m, d, hh, 0)
DateTime(y, m, d, hh, off) == Str("datetime", y, m, d, hh, off)

IsLeap(y) == (y % 4 = 0 /\ y % 100 # 0) \/ y % 400 = 0

DaysInMonth(y, m) ==
    CASE m \in {1, 3, 5, 7, 8, 10, 12} -> 31
      [] m \in {4, 6, 9, 11} -> 30
      [] m = 2 -> IF IsLeap(y) THEN 29 ELSE 28
      [] OTHER -> 0

ValidYMD(y, m, d) == m \in 1..12 /\ d \in 1..DaysInMonth(y, m)

Date(y, m, d) == [y |-> y, m |-> m, d |-> d]

PrevDay(dt) ==
    IF dt.d > 1 THEN Date(dt.y, dt.m, dt.d - 1)
    ELSE IF dt.m > 1 THEN Date(dt.y, dt.m - 1, DaysInMonth(dt.y, dt.m - 1))
    ELSE Date(dt.y - 1, 12, 31)

NextDay(dt) ==
    IF dt.d < DaysInMonth(dt.y, dt.m) THEN Date(dt.y, dt.m, dt.d + 1)
    ELSE IF dt.m < 12 THEN Date(dt.y, dt.m + 1, 1)
    ELSE Date(dt.y + 1, 1, 1)

\* Result values of the parsers
Ok(v) == [ok |-> TRUE, v |-> v]
Err == [ok |-> FALSE, v |-> Date(0, 0, 0)]

\* chrono::NaiveDate::parse_from_str(s, "%Y-%m-%d"): the whole text must be a
\* calendar date
NaiveDate_parse_from_str(s) ==
    IF s.kind = "plain" /\ ValidYMD(s.y, s.m, s.d)
    THEN Ok(Date(s.y, s.m, s.d))
    ELSE Err

\* chrono::DateTime::parse_from_rfc3339(s) followed by .naive_utc().date():
\* the instant is moved to UTC (local time minus the offset) before the date
\* is taken
rfc3339_naive_utc_date(s) ==
    IF s.kind = "datetime" /\ ValidYMD(s.y, s.m, s.d) /\ s.hh \in 0..23
    THEN LET h == s.hh - s.off
             local == Date(s.y, s.m, s.d)
         IN  Ok(IF h < 0 THEN PrevDay(local)
                ELSE IF h >= 24 THEN NextDay(local)
                ELSE local)
    ELSE Err

\* str::trim().is_empty()
TrimIsEmpty(s) == s.kind \in {"empty", "blank"}

-----------------------------------------------------------------------------
(* Eligibility engine (utils.rs) *)

\* Option<String>
None == [some |-> FALSE, s |-> Null]
Some(s) == [some |-> TRUE, s |-> s]

\* teable.rs: birth_date: fields["Geburtsdatum"].as_str().unwrap_or("")
teable_birth_date(field) ==
    IF field.kind = "null" THEN Some(Empty) ELSE Some(field)

\* models.rs: #[derive(Deserialize)] Member, birth_date: Option<String>
serde_birth_date(field) ==
    IF field.kind = "null" THEN None ELSE Some(field)

\* AgeEligible with the lower bound one year early
AgeEligible_from_16(birth_year, current_year) ==
    LET age_in_current_year == current_year - birth_year
    IN  age_in_current_year >= MinAge - 1 /\ age_in_current_year < AgeLimit

\* the age test, used by both parse branches
AgeEligible(birth_year, current_year) ==
    LET age_in_current_year == current_year - birth_year
    IN  age_in_current_year >= MinAge /\ age_in_current_year < AgeLimit

\* is_member_eligible_for_work_hours failing closed on an unreadable birth date
is_member_eligible_fail_closed(birth_date, current_year) ==
    IF birth_date.some
    THEN IF TrimIsEmpty(birth_date.s) THEN FALSE
         ELSE IF rfc3339_naive_utc_date(birth_date.s).ok
         THEN AgeEligible(rfc3339_naive_utc_date(birth_date.s).v.y, current_year)
         ELSE IF NaiveDate_parse_from_str(birth_date.s).ok
         THEN AgeEligible(NaiveDate_parse_from_str(birth_date.s).v.y, current_year)
         ELSE FALSE
    ELSE FALSE

is_member_eligible_for_work_hours(birth_date, current_year) ==
    IF birth_date.some
    THEN IF TrimIsEmpty(birth_date.s) THEN TRUE
         ELSE IF rfc3339_naive_utc_date(birth_date.s).ok
         THEN AgeEligible(rfc3339_naive_utc_date(birth_date.s).v.y, current_year)
         ELSE IF NaiveDate_parse_from_str(birth_date.s).ok
         THEN AgeEligible(NaiveDate_parse_from_str(birth_date.s).v.y, current_year)
         ELSE TRUE
    ELSE TRUE

get_required_hours_for_member(birth_date, current_year) ==
    IF is_member_eligible_for_work_hours(birth_date, current_year)
    THEN StandardHours
    ELSE 0

-----------------------------------------------------------------------------
(* Eligibility: the inputs and the two steps that produce a required amount *)

EligYears == {StartYear, StartYear + 1}

\* birth dates as the Records Service may hold them, around birth year b
BirthTexts(b) ==
    { Plain(b, 6, 15), Plain(b, 2, 30), Naive(b, 6, 15, 10),
      DateTime(b, 10, 8, 22, 0),
      DateTime(b, 1, 1, 0, 2),
      DateTime(b, 12, 31, 23, -1) }

RawBirthFields ==
    {Null, Empty, Blank, Text}
        \cup UNION { BirthTexts(b) : b \in (StartYear - MaxAge)..StartYear }

\* join dates as the Records Service may hold them for the year y
RawJoinFields(y) == {Null, Plain(y - 1, 5, 1), Plain(y, 6, 30), Plain(y, 7, 1)}

EligIdle ==
    [pc |-> "idle", year |-> 0, raw_birth |-> Null, raw_join |-> Null,
     birth_date |-> None, required |-> 0]

\* the member record is read through the Records Service client
FetchMember ==
    /\ elig.pc = "raw"
    /\ elig' = [elig EXCEPT !.pc = "member",
                            !.birth_date = teable_birth_date(elig.raw_birth)]
    /\ UNCHANGED <<store, nextId, today, last, inflight, dash, acct>>

\* the member record is deserialized into models::Member
DeserializeMember ==
    /\ elig.pc = "raw"
    /\ elig' = [elig EXCEPT !.pc = "member",
                            !.birth_date = serde_birth_date(elig.raw_birth)]
    /\ UNCHANGED <<store, nextId, today, last, inflight, dash, acct>>

\* the dashboard asks for the member's required hours
ComputeRequired ==
    /\ elig.pc = "member"
    /\ elig' = [elig EXCEPT
                  !.pc = "done",
                  !.required = get_required_hours_for_member(elig.birth_date, elig.year)]
    /\ UNCHANGED <<store, nextId, today, last, inflight, dash, acct>>

-----------------------------------------------------------------------------
(* The Records Service: members and the work-hours table *)

Members == {"recA", "recB"}
\* the members of the directory: recC is a member who submits nothing
FamilyDirectory == Members \cup {"recC"}
\* "recX" carries a valid token but has no member record
Users == Members \cup {"recX"}
\* a request without a valid bearer token
NoAuth == "anonymous"
Actors == Users \cup {NoAuth}

\* which upstream call of the request fails, if any
Upstream == {"none", "member", "read", "write"}

NoId == [some |-> FALSE, v |-> ""]
SomeId(v) == [some |-> TRUE, v |-> v]

\* the JSON value of the Mitglied_id field
LinkObject(m) == [tag |-> "object", id |-> m]
LinkString(m) == [tag |-> "string", id |-> m]
LinkNull == [tag |-> "null", id |-> ""]

\* models.rs: WorkHour::get_member_id
get_member_id(wh) ==
    IF wh.link.tag = "object" THEN SomeId(wh.link.id)
    ELSE IF wh.link.tag = "string" THEN SomeId(wh.link.id)
    ELSE NoId

\* f64 values are fixed-point numbers counting 1/7200: c hundredths of an
\* hour are Hundredths(c), and dividing a whole or half number of hours by
\* 3600 is exact
Hundredths(c) == c * ((2 * SecondsPerHour) \div 100)

\* a record that was never linked to a member
LegacyRecord ==
    [id |-> 0, link |-> LinkNull, date |-> Plain(StartYear - 1, 12, 30),
     desc |-> "mow", stunden |-> 250]

\* the JSON value of the Stunden field of a request body: a number, a string
\* that str::parse::<f64> reads as the number v ("2.5"), another string
\* ("abc", "", "2,5"), or absent
Number(v) == [tag |-> "number", v |-> v]
NumericString(v) == [tag |-> "numeric_string", v |-> v]
OtherString == [tag |-> "other_string", v |-> 0]
NoStunden == [tag |-> "null", v |-> 0]

\* string_or_f64 reading every string as one hour
string_or_f64_text_as_one(w) ==
    IF w.tag \in {"number", "numeric_string"} THEN [ok |-> TRUE, v |-> w.v]
    ELSE IF w.tag = "other_string" THEN [ok |-> TRUE, v |-> Hundredths(100)]
    ELSE [ok |-> FALSE, v |-> 0]

\* models.rs: string_or_f64, the deserializer of the hours field
string_or_f64(w) ==
    IF w.tag \in {"number", "numeric_string"} THEN [ok |-> TRUE, v |-> w.v]
    ELSE [ok |-> FALSE, v |-> 0]

\* submissions that pass every field check in some month of the model
ValidDates == {Plain(StartYear - 2, 12, 30), Plain(StartYear - 1, 12, 30), Plain(StartYear, 3, 5)}
ValidPayloads ==
    { [json |-> TRUE, date |-> d, desc |-> c.desc, hours |-> c.hours,
        stunden |-> Number(c.hours)] :
        d \in ValidDates,
        c \in {[desc |-> "mow", hours |-> Hundredths(100)],
               [desc |-> "paint", hours |-> Hundredths(250)]} }

\* the request body failed to deserialize
BadJson == [json |-> FALSE, date |-> Null, desc |-> "", hours |-> 0, stunden |-> NoStunden]

\* submissions that fail a field check, alone or together with another
FaultyPayloads ==
    {BadJson}
    \cup { [json |-> TRUE, date |-> d, desc |-> "mow", hours |-> Hundredths(100),
              stunden |-> Number(Hundredths(100))] :
             d \in {Empty, Text, Plain(StartYear, 2, 30), DateTime(StartYear, 3, 5, 10, 0)} }
    \cup { [json |-> TRUE, date |-> Plain(StartYear, 3, 5), desc |-> "", hours |-> h,
              stunden |-> Number(h)] :
             h \in {Hundredths(100), Hundredths(0)} }
    \cup { [json |-> TRUE, date |-> d, desc |-> "mow", hours |-> h, stunden |-> Number(h)] :
             d \in {Plain(StartYear, 3, 5), Plain(StartYear - 2, 12, 30)},
             h \in {Hundredths(0), Hundredths(-100)} }
    \cup { [json |-> TRUE, date |-> Text, desc |-> "", hours |-> Hundredths(100),
              stunden |-> Number(Hundredths(100))] }

Payloads == ValidPayloads \cup FaultyPayloads

\* teable.rs: get_member_by_id_with_projection, None when the record is absent
get_member_by_id(id) == IF id \in FamilyDirectory THEN SomeId(id) ELSE NoId

\* day of the week of a calendar date, 0 = Sunday
DayOfWeek(y, m, d) ==
    LET t == <<0, 3, 2, 5, 0, 3, 5, 1, 4, 6, 2, 4>>
        yy == IF m < 3 THEN y - 1 ELSE y
    IN  (yy + (yy \div 4) - (yy \div 100) + (yy \div 400) + t[m] + d) % 7

\* the last Sunday of March or October (months of 31 days)
LastSunday(y, m) == 31 - DayOfWeek(y, m, 31)

\* chrono_tz Europe/Berlin: hours ahead of UTC at the UTC date and hour; summer
\* time runs from 01:00 UTC of the last Sunday of March to 01:00 UTC of the last
\* Sunday of October
BerlinOffset(dt, h) ==
    LET afterStart == \/ dt.m > 3
                      \/ dt.m = 3 /\ dt.d > LastSunday(dt.y, 3)
                      \/ dt.m = 3 /\ dt.d = LastSunday(dt.y, 3) /\ h >= 1
        beforeEnd == \/ dt.m < 10
                     \/ dt.m = 10 /\ dt.d < LastSunday(dt.y, 10)
                     \/ dt.m = 10 /\ dt.d = LastSunday(dt.y, 10) /\ h < 1
    IN  IF afterStart /\ beforeEnd THEN 2 ELSE 1

\* dt.with_timezone(&Berlin).date_naive() of a parsed RFC 3339 value
berlin_date_naive(s) ==
    LET utc == rfc3339_naive_utc_date(s).v
        uh == (s.hh - s.off) % 24
        h == uh + BerlinOffset(utc, uh)
    IN  IF h >= 24 THEN NextDay(utc) ELSE utc

\* teable.rs: the Datum field as read back: an RFC 3339 value is moved to
\* Europe/Berlin and its date is kept, any other text is cut to its first 10
\* characters ("" when it is shorter)
read_datum(s) ==
    IF rfc3339_naive_utc_date(s).ok
    THEN LET b == berlin_date_naive(s) IN Plain(b.y, b.m, b.d)
    ELSE IF s.kind \in {"empty", "blank"} THEN Empty
    ELSE IF s.kind \in {"naive", "datetime"} THEN Plain(s.y, s.m, s.d)
    ELSE s

\* teable.rs: get_work_hour_by_id of an answer with a success status: None
\* when the answer carries no fields, which is how an absent record shows;
\* an answer with an error status is the failing upstream call "read"
get_work_hour_by_id(id) ==
    IF \E wh \in store : wh.id = id
    THEN [some |-> TRUE, v |-> CHOOSE wh \in store : wh.id = id]
    ELSE [some |-> FALSE, v |-> LegacyRecord]

\* the member's records whose date, as read back, is the given date
get_work_hours_for_member_at_date(member_id, date) ==
    { wh \in store : get_member_id(wh) = SomeId(member_id) /\ read_datum(wh.date) = date }

\* teable.rs: the record create_work_hour posts
teable_create_work_hour(id, date, description, duration_seconds, member_id) ==
    [id |-> id, link |-> LinkObject(member_id), date |-> date, desc |-> description,
     stunden |-> duration_seconds \div SecondsPerHour]

\* teable.rs: the table after update_work_hour patches record work_hour_id
teable_update_work_hour(work_hour_id, date, description, duration_seconds, member_id) ==
    { IF wh.id = work_hour_id
      THEN [wh EXCEPT !.link = LinkObject(member_id), !.date = date,
                      !.desc = description,
                      !.stunden = duration_seconds \div SecondsPerHour]
      ELSE wh : wh \in store }

\* teable.rs: the table after delete_work_hour
teable_delete_work_hour(work_hour_id) == { wh \in store : wh.id # work_hour_id }

\* ids a request may name: the unlinked record, the ids the Records Service
\* hands out, and one it never hands out
RequestIds == 0..(MaxEntries + 1)

\* the requests of the model: every submission by member recA, every valid
\* submission by member recB, a failing upstream call under a submission that
\* reaches it, and one request each without a token and by a user without a
\* member record
Request(actor, payload, f) == [actor |-> actor, payload |-> payload, f |-> f]
SamplePayload == [json |-> TRUE, date |-> Plain(StartYear, 3, 5), desc |-> "mow",
                  hours |-> Hundredths(100), stunden |-> Number(Hundredths(100))]
Requests ==
    { Request("recA", p, "none") : p \in Payloads }
    \cup { Request("recB", p, "none") : p \in ValidPayloads }
    \cup { Request("recA", SamplePayload, f) : f \in {"member", "read", "write"} }
    \cup { Request(a, SamplePayload, "none") : a \in {NoAuth, "recX"} }

\* the requests that carry no body
BodylessRequests ==
    { Request(a, BadJson, "none") : a \in Actors }
    \cup { Request("recA", BadJson, f) : f \in {"member", "read", "write"} }

-----------------------------------------------------------------------------
(* The handlers of main.rs *)

\* the latest request and its response, until the response is delivered: the
\* operation, the request (authenticated user, record id of the path, body,
\* failing upstream call), the response and the id of the created record
Exchange(op, actor, id, payload, f, kind, new_id) ==
    [op |-> op, actor |-> actor, id |-> id, payload |-> payload, f |-> f,
     kind |-> kind, new_id |-> new_id]
Idle == Exchange("none", NoAuth, -1, BadJson, "none", "none", -1)

\* min_allowed_year without the grace month
min_allowed_year_no_grace(current_year, current_month) == current_year

\* main.rs: the minimum allowed year of a submission
min_allowed_year(current_year, current_month) ==
    IF current_month = GraceMonth THEN current_year - 1 ELSE current_year

\* validate_payload accepting zero hours
validate_payload_zero_hours(payload) ==
    IF payload.date.kind = "empty" THEN "missing_date"
    ELSE IF payload.desc = "" THEN "missing_description"
    ELSE IF payload.hours < 0 THEN "invalid_hours"
    ELSE IF NaiveDate_parse_from_str(payload.date).ok
    THEN IF NaiveDate_parse_from_str(payload.date).v.y
                < (IF today.month = GraceMonth THEN today.year - 1 ELSE today.year)
         THEN IF today.month = GraceMonth THEN "year_grace" ELSE "year_strict"
         ELSE "pass"
    ELSE "bad_date_format"

\* main.rs: the field checks and the year check shared by create and update;
\* "pass" or the check that failed
validate_payload(payload) ==
    IF payload.date.kind = "empty" THEN "missing_date"
    ELSE IF payload.desc = "" THEN "missing_description"
    ELSE IF payload.hours <= 0 THEN "invalid_hours"
    ELSE IF NaiveDate_parse_from_str(payload.date).ok
    THEN IF NaiveDate_parse_from_str(payload.date).v.y
                < min_allowed_year(today.year, today.month)
         THEN IF today.month = GraceMonth THEN "year_grace" ELSE "year_strict"
         ELSE "pass"
    ELSE "bad_date_format"

\* create_validate without the duplicate check
create_validate_no_duplicate_check(actor, payload, f) ==
    IF actor = NoAuth THEN "unauthorized"
    ELSE IF ~payload.json THEN "invalid_json"
    ELSE IF validate_payload(payload) \in
                {"missing_date", "missing_description", "invalid_hours"}
    THEN "bad_request"
    ELSE IF validate_payload(payload) # "pass" THEN validate_payload(payload)
    ELSE IF f = "member" THEN "server_error"
    ELSE IF ~get_member_by_id(actor).some THEN "member_not_found"
    ELSE IF f = "read" THEN "server_error"
    ELSE "pass"

\* main.rs: create_work_hour up to the duplicate check; "pass" or the response
\* of the early return
create_validate(actor, payload, f) ==
    IF actor = NoAuth THEN "unauthorized"
    ELSE IF ~payload.json THEN "invalid_json"
    ELSE IF validate_payload(payload) \in
                {"missing_date", "missing_description", "invalid_hours"}
    THEN "bad_request"
    ELSE IF validate_payload(payload) # "pass" THEN validate_payload(payload)
    ELSE IF f = "member" THEN "server_error"
    ELSE IF ~get_member_by_id(actor).some THEN "member_not_found"
    ELSE IF f = "read" THEN "server_error"
    ELSE IF get_work_hours_for_member_at_date(actor, payload.date) # {} THEN "duplicate"
    ELSE "pass"

\* create_write as a compare-and-set: the record is posted only when the table
\* still holds none for the member and date
create_write_unique(actor, payload, f) ==
    IF get_work_hours_for_member_at_date(actor, payload.date) # {}
    THEN /\ last' = Exchange("create", actor, -1, payload, f, "duplicate", -1)
         /\ UNCHANGED <<store, nextId>>
    ELSE IF f = "write"
    THEN /\ last' = Exchange("create", actor, -1, payload, f, "created_upstream_failed", -1)
         /\ UNCHANGED <<store, nextId>>
    ELSE /\ nextId <= MaxEntries
         /\ store' = store \cup
               {teable_create_work_hour(nextId, payload.date, payload.desc,
                                        payload.hours, actor)}
         /\ nextId' = nextId + 1
         /\ last' = Exchange("create", actor, -1, payload, f, "created", nextId)

\* main.rs: the end of create_work_hour: the record is posted and the answer
\* is a success whether or not the Records Service stored it
create_write(actor, payload, f) ==
    IF f = "write"
    THEN /\ last' = Exchange("create", actor, -1, payload, f, "created_upstream_failed", -1)
         /\ UNCHANGED <<store, nextId>>
    ELSE /\ nextId <= MaxEntries
         /\ store' = store \cup
               {teable_create_work_hour(nextId, payload.date, payload.desc,
                                        payload.hours, actor)}
         /\ nextId' = nextId + 1
         /\ last' = Exchange("create", actor, -1, payload, f, "created", nextId)

\* main.rs: create_work_hour, as one request that overlaps no other
create_work_hour(actor, payload, f) ==
    /\ last = Idle
    /\ IF create_validate(actor, payload, f) = "pass"
       THEN create_write(actor, payload, f)
       ELSE /\ last' = Exchange("create", actor, -1, payload, f,
                                create_validate(actor, payload, f), -1)
            /\ UNCHANGED <<store, nextId>>
    /\ UNCHANGED <<today, inflight, elig, dash, acct>>

\* update_validate with an answer of its own for an absent record
update_validate_tells_absent(actor, id, payload, f) ==
    IF actor = NoAuth THEN "unauthorized"
    ELSE IF ~payload.json THEN "invalid_json"
    ELSE IF validate_payload(payload) # "pass" THEN validate_payload(payload)
    ELSE IF f = "member" THEN "server_error"
    ELSE IF ~get_member_by_id(actor).some THEN "member_not_found"
    ELSE IF f = "read" THEN "server_error"
    ELSE IF get_work_hour_by_id(id).some
    THEN IF get_member_id(get_work_hour_by_id(id).v) = SomeId(actor)
         THEN "pass"
         ELSE "not_found_or_denied"
    ELSE "not_found"

\* main.rs: update_work_hour up to the ownership check
update_validate(actor, id, payload, f) ==
    IF actor = NoAuth THEN "unauthorized"
    ELSE IF ~payload.json THEN "invalid_json"
    ELSE IF validate_payload(payload) # "pass" THEN validate_payload(payload)
    ELSE IF f = "member" THEN "server_error"
    ELSE IF ~get_member_by_id(actor).some THEN "member_not_found"
    ELSE IF f = "read" THEN "server_error"
    ELSE IF get_work_hour_by_id(id).some
    THEN IF get_member_id(get_work_hour_by_id(id).v) = SomeId(actor)
         THEN "pass"
         ELSE "not_found_or_denied"
    ELSE "not_found_or_denied"

\* main.rs: update_work_hour
update_work_hour(actor, id, payload, f) ==
    /\ last = Idle
    /\ IF update_validate(actor, id, payload, f) # "pass"
       THEN /\ last' = Exchange("update", actor, id, payload, f,
                                update_validate(actor, id, payload, f), -1)
            /\ UNCHANGED store
       ELSE IF f = "write"
       THEN /\ last' = Exchange("update", actor, id, payload, f, "update_failed", -1)
            /\ UNCHANGED store
       ELSE /\ store' = teable_update_work_hour(id, payload.date, payload.desc,
                                                payload.hours, actor)
            /\ last' = Exchange("update", actor, id, payload, f, "updated", -1)
    /\ UNCHANGED <<nextId, today, inflight, elig, dash, acct>>

\* main.rs: delete_work_hour; the Records Service answers an unknown id with
\* an error
delete_work_hour(actor, id, f) ==
    /\ last = Idle
    /\ IF actor = NoAuth
       THEN /\ last' = Exchange("delete", actor, id, BadJson, f, "unauthorized", -1)
            /\ UNCHANGED store
       ELSE IF f = "write" \/ ~get_work_hour_by_id(id).some
       THEN /\ last' = Exchange("delete", actor, id, BadJson, f, "delete_failed", -1)
            /\ UNCHANGED store
       ELSE /\ store' = teable_delete_work_hour(id)
            /\ last' = Exchange("delete", actor, id, BadJson, f, "deleted", -1)
    /\ UNCHANGED <<nextId, today, inflight, elig, dash, acct>>

\* main.rs: the response of get_work_hour_by_id
get_work_hour_response(actor, id, f) ==
    IF actor = NoAuth THEN "unauthorized"
    ELSE IF f = "member" THEN "server_error"
    ELSE IF ~get_member_by_id(actor).some THEN "member_not_found"
    ELSE IF f = "read" THEN "server_error"
    ELSE IF get_work_hour_by_id(id).some
    THEN IF get_member_id(get_work_hour_by_id(id).v) = SomeId(actor)
         THEN IF get_work_hour_by_id(id).v.date.kind # "null" THEN "found"
              ELSE "incomplete"
         ELSE "not_found_or_denied"
    ELSE "not_found_or_denied"

\* main.rs: get_work_hour_by_id
get_work_hour(actor, id, f) ==
    /\ last = Idle
    /\ last' = Exchange("get", actor, id, BadJson, f,
                        get_work_hour_response(actor, id, f), -1)
    /\ UNCHANGED <<store, nextId, today, inflight, elig, dash, acct>>

\* the response leaves the server
Respond ==
    /\ last # Idle
    /\ last' = Idle
    /\ UNCHANGED <<store, nextId, today, inflight, elig, dash, acct>>

-----------------------------------------------------------------------------
(* Requests that overlap: a create request between its check and its write *)

NoRequest == [busy |-> FALSE, actor |-> NoAuth, payload |-> BadJson]
Slots == 1..MaxInFlight

InFlightCount == Cardinality({k \in Slots : inflight[k].busy})

\* the create requests that overlap
OverlapRequests ==
    { Request(a, [SamplePayload EXCEPT !.desc = c], "none") :
        a \in Members, c \in {"mow", "paint"} }
    \cup { Request("recA", [SamplePayload EXCEPT !.desc = ""], "none") }

\* create_work_hour from its start to the await of the record's creation
create_check(k, actor, payload, f) ==
    /\ last = Idle
    /\ ~inflight[k].busy
    /\ IF create_validate(actor, payload, f) = "pass"
       THEN /\ nextId + InFlightCount <= MaxEntries
            /\ inflight' = [inflight EXCEPT
                              ![k] = [busy |-> TRUE, actor |-> actor, payload |-> payload]]
            /\ UNCHANGED last
       ELSE /\ last' = Exchange("create", actor, -1, payload, f,
                                create_validate(actor, payload, f), -1)
            /\ UNCHANGED inflight
    /\ UNCHANGED <<store, nextId, today, elig, dash, acct>>

\* create_work_hour from the record's creation to the response
create_finish(k, f) ==
    /\ last = Idle
    /\ inflight[k].busy
    /\ create_write(inflight[k].actor, inflight[k].payload, f)
    /\ inflight' = [inflight EXCEPT ![k] = NoRequest]
    /\ UNCHANGED <<today, elig, dash, acct>>

-----------------------------------------------------------------------------
(* The dashboard: aggregation of the work hours (utils.rs, main.rs) *)

\* a hundredth of an hour in the f64 fixed point
Cent == Hundredths(1)

\* utils.rs: round_to_2_decimals, (value * 100.0).round() / 100.0; f64::round
\* rounds half away from zero
round_to_2_decimals(value) ==
    IF value >= 0
    THEN ((value + Cent \div 2) \div Cent) * Cent
    ELSE -(((Cent \div 2 - value) \div Cent) * Cent)

\* utils.rs: seconds_to_hours
seconds_to_hours(seconds) == round_to_2_decimals(seconds \div SecondsPerHour)

\* the JSON null in the Tätigkeit field of a record
NullDesc == "null"

\* Option<String> of a description, Option<f64> of a duration
NoText == [some |-> FALSE, s |-> ""]
SomeText(s) == [some |-> TRUE, s |-> s]
SomeF64(v) == [some |-> TRUE, v |-> v]

\* teable.rs: get_work_hours_filtered, the WorkHour built from each record:
\* the date is read as in get_work_hour_by_id, Stunden is multiplied by 3600
get_work_hours_filtered ==
    { [id |-> r.id,
       link |-> r.link,
       date |-> IF r.date.kind = "null" THEN None ELSE Some(read_datum(r.date)),
       description |-> IF r.desc = NullDesc THEN NoText ELSE SomeText(r.desc),
       duration_seconds |-> SomeF64(r.stunden * SecondsPerHour)] : r \in store }

\* utils.rs: the member filter of filter_work_hours_for_user_by_year; the
\* records read through teable.rs carry no Mitglied_UUID
member_matches(wh, user_id) ==
    IF get_member_id(wh).some THEN get_member_id(wh).v = user_id ELSE FALSE

\* year_matches taking every year
year_matches_every_year(wh, year) == wh.date.some

\* utils.rs: the year filter: the text before the first '-' parses as the year
year_matches(wh, year) ==
    /\ wh.date.some
    /\ wh.date.s.kind \in {"plain", "naive", "datetime"}
    /\ wh.date.s.y = year

\* utils.rs: date_norm, the date cut at its 'T'
date_norm(s) ==
    IF s.kind \in {"naive", "datetime"} THEN Plain(s.y, s.m, s.d) ELSE s

\* utils.rs: the filter_map of filter_work_hours_for_user_by_year: an entry
\* for every work hour with date, description and duration
work_hours_to_entries(work_hours) ==
    { [id |-> wh.id,
       date |-> date_norm(wh.date.s),
       description |-> wh.description.s,
       duration_hours |-> seconds_to_hours(wh.duration_seconds.v)] :
         wh \in { w \in work_hours :
                    w.date.some /\ w.description.some /\ w.duration_seconds.some } }

\* utils.rs: filter_work_hours_for_user_by_year
filter_work_hours_for_user_by_year(work_hours, user_id, year) ==
    work_hours_to_entries(
        { wh \in { w \in work_hours : member_matches(w, user_id) } :
            year_matches(wh, year) })

\* the member's work hours of the year as the Records Service client hands
\* them to the dashboard
get_work_hours_for_member_by_year(member_id, year) ==
    { wh \in get_work_hours_filtered :
        member_matches(wh, member_id) /\ year_matches(wh, year) }

\* the entries the dashboard shows for work hours
convert_work_hours_to_entries(work_hours) == work_hours_to_entries(work_hours)

RECURSIVE SumDurationHours(_)
SumDurationHours(entries) ==
    IF entries = {} THEN 0
    ELSE LET e == CHOOSE x \in entries : TRUE
         IN  e.duration_hours + SumDurationHours(entries \ {e})

\* utils.rs: calculate_total_hours
calculate_total_hours(entries) == round_to_2_decimals(SumDurationHours(entries))

\* the f64 of a whole number of hours
WholeHours(n) == Hundredths(100 * n)

\* the birth dates of the members of the directory
BirthField(id) ==
    CASE id = "recA" -> Plain(StartYear - 34, 1, 1)
      [] id = "recB" -> Plain(StartYear - 10, 5, 5)
      [] OTHER -> Null

\* teable.rs: the Member built from a record of the members table
Member(id, familie) ==
    [id |-> id, birth_date |-> teable_birth_date(BirthField(id)), family_id |-> familie]

\* the Familie field of the user: absent, empty, or the name of the family
NoFamily == [some |-> FALSE, s |-> ""]
FamilyFields == {NoFamily, SomeText(""), SomeText("F")}

\* answers of get_family_members: the members in the order of the directory
FamilyLists ==
    { <<>>, <<"recB">>, <<"recA">>, <<"recB", "recA">>, <<"recA", "recC">>,
      <<"recC", "recA", "recB">> }

NoSummary ==
    [some |-> FALSE, members |-> <<>>, required |-> 0, completed |-> 0,
     remaining |-> 0, percentage |-> [num |-> 0, den |-> 1],
     member_contributions |-> <<>>]

\* which fetch of a dashboard request fails, if any: the member lookup, the
\* fetch of the user's own work hours, the fetch of the family member list
DashboardFaults == {"none", "member", "hours", "family"}

\* the dashboard request being served: the handler's position and locals, the
\* failing fetch of the request (f), whether personal_data has been built
\* (computed), the family members whose work hours could not be fetched
\* (failed, by position), and the response: its status and whether it carries
\* a DashboardResponse (body)
DashIdle ==
    [pc |-> "idle", user |-> NoAuth, year |-> 0, f |-> "none",
     computed |-> FALSE, status |-> "none", body |-> FALSE,
     personal |-> [hours |-> 0, required |-> 0, entries |-> {}],
     family_members |-> <<>>, member_contributions |-> <<>>, failed |-> {},
     family_total_hours |-> 0, family_required_total |-> 0,
     family |-> NoSummary]

\* dashboard_fetch_status taking a failed fetch of the user's work hours as
\* no work hours
dashboard_fetch_status_hours_as_empty(user, f) ==
    IF f = "member" THEN "server_error"
    ELSE IF user \notin FamilyDirectory THEN "not_found"
    ELSE "ok"

\* main.rs: dashboard, the two fetches before the personal data: the early
\* return of the member lookup (map_err, ok_or_else) and of the fetch of the
\* user's work hours (map_err), or "ok"
dashboard_fetch_status(user, f) ==
    IF f = "member" THEN "server_error"
    ELSE IF user \notin FamilyDirectory THEN "not_found"
    ELSE IF f = "hours" THEN "server_error"
    ELSE "ok"

\* main.rs: dashboard, the fetch of the family member list: map_err and `?`
dashboard_family_status(f) == IF f = "family" THEN "server_error" ELSE "ok"

\* main.rs: dashboard up to the family part: the personal data of the user
dashboard_personal(user, familie, year, family_members, f) ==
    /\ dash.pc = "idle"
    /\ LET current_user == Member(user, familie)
           user_work_hours ==
               convert_work_hours_to_entries(
                   get_work_hours_for_member_by_year(current_user.id, year))
           has_family == familie.some /\ familie.s # ""
           family_ok == has_family /\ dashboard_family_status(f) = "ok"
       IN  IF dashboard_fetch_status(user, f) # "ok"
           THEN dash' = [DashIdle EXCEPT
                           !.pc = "done", !.user = user, !.year = year, !.f = f,
                           !.status = dashboard_fetch_status(user, f)]
           ELSE dash' = [DashIdle EXCEPT
                      !.pc = IF family_ok THEN "family" ELSE "done",
                      !.user = user,
                      !.year = year,
                      !.f = f,
                      !.computed = TRUE,
                      !.status = IF ~has_family THEN "ok"
                                 ELSE IF family_ok THEN "none"
                                 ELSE dashboard_family_status(f),
                      !.body = ~has_family,
                      !.personal =
                          [hours |-> calculate_total_hours(user_work_hours),
                           required |-> WholeHours(
                               get_required_hours_for_member(current_user.birth_date, year)),
                           entries |-> user_work_hours],
                      !.family_members =
                          IF family_ok
                          THEN [i \in DOMAIN family_members |->
                                    Member(family_members[i], familie)]
                          ELSE <<>>]
    /\ UNCHANGED <<store, nextId, today, last, inflight, elig, acct>>

\* member_contributions.push putting the contribution in front
push_front(contributions, c) == <<c>> \o contributions

\* main.rs: member_contributions.push
push(contributions, c) == Append(contributions, c)

\* main.rs: dashboard, one pass of the loop over the family members; a failed
\* fetch of the member's work hours counts as no work hours
dashboard_family_member(fetch_ok) ==
    /\ dash.pc = "family"
    /\ Len(dash.member_contributions) < Len(dash.family_members)
    /\ LET member == dash.family_members[Len(dash.member_contributions) + 1]
           member_work_hours_raw ==
               IF fetch_ok THEN get_work_hours_for_member_by_year(member.id, dash.year)
               ELSE {}
           member_work_hours == convert_work_hours_to_entries(member_work_hours_raw)
           member_hours == calculate_total_hours(member_work_hours)
           member_required ==
               WholeHours(get_required_hours_for_member(member.birth_date, dash.year))
       IN  dash' = [dash EXCEPT
                      !.family_total_hours = @ + member_hours,
                      !.family_required_total = @ + member_required,
                      !.failed = IF fetch_ok THEN @
                                 ELSE @ \cup {Len(dash.member_contributions) + 1},
                      !.member_contributions =
                          push(@, [id |-> member.id, hours |-> member_hours,
                                   required |-> member_required,
                                   entries |-> member_work_hours])]
    /\ UNCHANGED <<store, nextId, today, last, inflight, elig, acct>>

\* family_remaining without the lower bound
family_remaining_unbounded(required_total, total) == required_total - total

\* main.rs: family_remaining
family_remaining(required_total, total) ==
    IF required_total - total > 0 THEN required_total - total ELSE 0

\* family_percentage giving 0 when nothing is required
family_percentage_zero(required_total, total) ==
    IF required_total > 0 THEN [num |-> total * 100, den |-> required_total]
    ELSE [num |-> 0, den |-> 1]

\* main.rs: family_percentage, the f64 quotient as an exact fraction
family_percentage(required_total, total) ==
    IF required_total > 0 THEN [num |-> total * 100, den |-> required_total]
    ELSE [num |-> 100, den |-> 1]

\* main.rs: dashboard after the loop: the family data and the response
dashboard_family_data ==
    /\ dash.pc = "family"
    /\ Len(dash.member_contributions) = Len(dash.family_members)
    /\ dash' = [dash EXCEPT
                  !.pc = "done",
                  !.status = "ok",
                  !.body = TRUE,
                  !.family =
                      [some |-> TRUE,
                       members |-> [i \in DOMAIN dash.family_members |->
                                       dash.family_members[i].id],
                       required |-> dash.family_required_total,
                       completed |-> dash.family_total_hours,
                       remaining |-> family_remaining(dash.family_required_total,
                                                      dash.family_total_hours),
                       percentage |-> family_percentage(dash.family_required_total,
                                                        dash.family_total_hours),
                       member_contributions |-> dash.member_contributions]]
    /\ UNCHANGED <<store, nextId, today, last, inflight, elig, acct>>

\* the dashboard response leaves the server
dashboard_respond ==
    /\ dash.pc = "done"
    /\ dash' = DashIdle
    /\ UNCHANGED <<store, nextId, today, last, inflight, elig, acct>>

-----------------------------------------------------------------------------
(* Sessions: the tokens of auth.rs, the middleware and the login flow *)

\* auth.rs: the lifetime of an auth token and of a selection token, in minutes
AuthTokenMinutes == 24 * 60
SelectionTokenMinutes == 5

\* the addresses of the model; "Fam@X.de" is "fam@x.de" written with capitals
Emails == {"fam@x.de", "Fam@X.de", "solo@x.de", "gone@x.de", "none@x.de"}
to_lowercase(e) == IF e = "Fam@X.de" THEN "fam@x.de" ELSE e

\* the Email field of the member records: recA and recB share an address
EmailField(id) ==
    CASE id = "recA" -> "Fam@X.de"
      [] id = "recB" -> "fam@x.de"
      [] OTHER -> "solo@x.de"

\* teable.rs: get_members_by_email, the members whose address is the given
\* one whatever the case
get_members_by_email(email) ==
    { id \in FamilyDirectory : to_lowercase(EmailField(id)) = to_lowercase(email) }

\* a JSON web token: the key it is signed with, the claims it carries
\* (fields) and their values; iat is -1 and typ is "" when the claim is absent
Jwt(key, fields, sub, exp, iat, typ) ==
    [key |-> key, fields |-> fields, sub |-> sub, exp |-> exp, iat |-> iat, typ |-> typ]
NoToken == Jwt("none", {}, "", 0, -1, "")

\* auth.rs: create_token and create_selection_token at the time now
create_token(user_id, now) ==
    Jwt("server", {"sub", "exp", "iat"}, user_id, now + AuthTokenMinutes, now, "")
create_selection_token(email, now) ==
    Jwt("server", {"sub", "exp", "typ"}, email, now + SelectionTokenMinutes, -1, "selection")

\* jsonwebtoken decode::<Claims> with Validation::default(): the signature is
\* the server's, every field of the claims struct is present, and the token
\* has not expired
decode(claims, token, now) ==
    /\ token.key = "server"
    /\ claims \subseteq token.fields
    /\ token.exp >= now

\* verify_token reading the claims without iat
verify_token_without_iat(token, now) ==
    IF decode({"sub", "exp"}, token, now) THEN Ok(token.sub) ELSE Err

\* auth.rs: verify_token; AuthClaims has the fields sub, exp and iat
verify_token(token, now) ==
    IF decode({"sub", "exp", "iat"}, token, now) THEN Ok(token.sub) ELSE Err

\* auth.rs: verify_selection_token; SelectionTokenClaims has the fields sub,
\* exp and typ, and typ must be "selection"
verify_selection_token(token, now) ==
    IF decode({"sub", "exp", "typ"}, token, now) /\ token.typ = "selection"
    THEN Ok(token.sub)
    ELSE Err

\* the Authorization header of a request: absent, of another scheme, or
\* "Bearer " followed by a token
NoHeader == [present |-> FALSE, bearer |-> FALSE, token |-> NoToken]
BasicHeader == [present |-> TRUE, bearer |-> FALSE, token |-> NoToken]
Bearer(token) == [present |-> TRUE, bearer |-> TRUE, token |-> token]

\* auth_middleware letting every request through
auth_middleware_open(header, now) == "next"

\* main.rs: auth_middleware on a protected route: the handler runs ("next")
\* or the answer is 401
auth_middleware(header, now) ==
    IF header.present /\ header.bearer
    THEN IF verify_token(header.token, now).ok THEN "next" ELSE "unauthorized"
    ELSE "unauthorized"

\* a user id of the old numbering: claims.sub parses as a number
IsNumeric(sub) == sub \in {"0", "17"}

\* utils.rs: extract_user_id_from_headers
extract_user_id_from_headers(header, now) ==
    IF ~(header.present /\ header.bearer) THEN Err
    ELSE IF verify_token(header.token, now).ok
    THEN IF IsNumeric(verify_token(header.token, now).v) THEN Err
         ELSE Ok(verify_token(header.token, now).v)
    ELSE Err

\* the user a protected handler serves the request for; NoAuth when the
\* middleware or the handler answers 401
authenticated_user(header, now) ==
    IF auth_middleware(header, now) = "next"
          /\ extract_user_id_from_headers(header, now).ok
    THEN extract_user_id_from_headers(header, now).v
    ELSE NoAuth

\* tokens a client may present that the server of the model never issued:
\* one signed with another key, and one of the old numbering
ForgedToken == Jwt("other", {"sub", "exp", "iat"}, "recA", 100 * AuthTokenMinutes, 0, "")
OldToken == Jwt("server", {"sub", "exp", "iat"}, "17", 100 * AuthTokenMinutes, 0, "")

\* the latest login or select-member exchange: the request (email, member
\* id, selection token, failing call), the status, and the tokens of the
\* response
AuthExchange(route, email, member_id, presented, f, status, token, selection_token) ==
    [route |-> route, email |-> email, member_id |-> member_id,
     presented |-> presented, f |-> f, status |-> status, token |-> token,
     selection_token |-> selection_token]
AuthIdle == AuthExchange("none", "", "", NoToken, "none", "none", NoToken, NoToken)

\* the sessions: the clock in minutes, the number of times it moved, the
\* tokens the server has issued, and the latest exchange
AuthInit == [now |-> 0, ticks |-> 0, issued |-> {}, last |-> AuthIdle]

\* the password database: the password of each address that has an account;
\* the addresses are compared in lower case (database.rs: get_user_by_email)
NoPassword == ""
Passwords == {"pw", "new"}
DatabaseInit ==
    [e \in {to_lowercase(x) : x \in Emails} |->
        IF e \in {"fam@x.de", "solo@x.de", "gone@x.de"} THEN "pw" ELSE NoPassword]

\* database.rs: verify_password
verify_password(email, password) ==
    /\ database[to_lowercase(email)] # NoPassword
    /\ database[to_lowercase(email)] = password

\* which call of a login or select-member request fails, if any
AuthFaults == {"none", "db", "directory"}

\* main.rs: login
login(email, password, f) ==
    /\ auth.last = AuthIdle
    /\ LET normalized_email == to_lowercase(email)
           teable_members == get_members_by_email(normalized_email)
           token == create_token(CHOOSE id \in teable_members : TRUE, auth.now)
           selection_token == create_selection_token(normalized_email, auth.now)
           answer(status, t, st) ==
               AuthExchange("login", email, "", NoToken, f, status, t, st)
       IN  IF f = "db"
           THEN auth' = [auth EXCEPT !.last = answer("server_error", NoToken, NoToken)]
           ELSE IF ~verify_password(normalized_email, password)
           THEN auth' = [auth EXCEPT !.last = answer("unauthorized", NoToken, NoToken)]
           ELSE IF f = "directory"
           THEN auth' = [auth EXCEPT !.last = answer("server_error", NoToken, NoToken)]
           ELSE IF teable_members = {}
           THEN auth' = [auth EXCEPT !.last = answer("unauthorized", NoToken, NoToken)]
           ELSE IF Cardinality(teable_members) = 1
           THEN auth' = [auth EXCEPT !.issued = @ \cup {token},
                                     !.last = answer("ok", token, NoToken)]
           ELSE auth' = [auth EXCEPT !.issued = @ \cup {selection_token},
                                     !.last = answer("ok", NoToken, selection_token)]
    /\ UNCHANGED <<store, nextId, today, last, inflight, elig, dash, database, resets>>

\* select_member without the comparison of the addresses
select_member_any_member(member_id, presented, f) ==
    /\ auth.last = AuthIdle
    /\ LET answer(status, t) ==
               AuthExchange("select", "", member_id, presented, f, status, t, NoToken)
       IN  IF presented = NoToken \/ ~verify_selection_token(presented, auth.now).ok
              \/ member_id \notin FamilyDirectory
           THEN auth' = [auth EXCEPT !.last = answer("unauthorized", NoToken)]
           ELSE auth' = [auth EXCEPT
                           !.issued = @ \cup {create_token(member_id, auth.now)},
                           !.last = answer("ok", create_token(member_id, auth.now))]
    /\ UNCHANGED <<store, nextId, today, last, inflight, elig, dash, database, resets>>

\* main.rs: select_member; presented is the selection_token of the request,
\* NoToken when the field is missing
select_member(member_id, presented, f) ==
    /\ auth.last = AuthIdle
    /\ LET email == verify_selection_token(presented, auth.now)
           token == create_token(member_id, auth.now)
           answer(status, t) ==
               AuthExchange("select", "", member_id, presented, f, status, t, NoToken)
       IN  IF presented = NoToken
           THEN auth' = [auth EXCEPT !.last = answer("unauthorized", NoToken)]
           ELSE IF ~email.ok
           THEN auth' = [auth EXCEPT !.last = answer("unauthorized", NoToken)]
           ELSE IF f = "directory"
           THEN auth' = [auth EXCEPT !.last = answer("server_error", NoToken)]
           ELSE IF member_id \notin FamilyDirectory
           THEN auth' = [auth EXCEPT !.last = answer("unauthorized", NoToken)]
           ELSE IF to_lowercase(EmailField(member_id)) # to_lowercase(email.v)
           THEN auth' = [auth EXCEPT !.last = answer("unauthorized", NoToken)]
           ELSE auth' = [auth EXCEPT !.issued = @ \cup {token},
                                     !.last = answer("ok", token)]
    /\ UNCHANGED <<store, nextId, today, last, inflight, elig, dash, database, resets>>

\* the response of login or select-member leaves the server
auth_respond ==
    /\ auth.last # AuthIdle
    /\ auth' = [auth EXCEPT !.last = AuthIdle]
    /\ UNCHANGED <<store, nextId, today, last, inflight, elig, dash, database, resets>>

\* main.rs: get_user, the handler of /user and of /verify-token
get_user_response(actor, f) ==
    IF actor = NoAuth THEN "unauthorized"
    ELSE IF f = "member" THEN "server_error"
    ELSE IF ~get_member_by_id(actor).some THEN "not_found"
    ELSE "found"

get_user(op, actor, f) ==
    /\ last = Idle
    /\ last' = Exchange(op, actor, -1, BadJson, f, get_user_response(actor, f), -1)
    /\ UNCHANGED <<store, nextId, today, inflight, elig, dash, acct>>

\* main.rs: dashboard: the user of the request and then the personal data
dashboard(actor, familie, year, family_members, f) ==
    IF actor = NoAuth
    THEN /\ dash.pc = "idle"
         /\ dash' = [DashIdle EXCEPT !.pc = "done", !.year = year, !.f = f,
                                     !.status = "unauthorized"]
         /\ UNCHANGED <<store, nextId, today, last, inflight, elig, acct>>
    ELSE dashboard_personal(actor, familie, year, family_members, f)

-----------------------------------------------------------------------------
(* The TokenStore of token_store.rs *)

\* token_store.rs: a reset token expires 24 hours after its creation
ResetTokenHours == 24

\* bounds of the password resets: reset tokens created, moves of the clock
MaxResetTokens == 2
MaxClockMoves == 1

\* the n-th token id Uuid::new_v4() hands out; never the same twice
Uuid(n) == [uuid |-> n]
\* a token id no reset token ever had
UnknownUuid == Uuid(0)

\* HashMap: insert and remove
EmptyMap == [k \in {} |-> 0]
insert(map, k, v) == (k :> v) @@ map
remove(map, keys) == [k \in DOMAIN map \ keys |-> map[k]]

\* token_store.rs: ResetToken as create_reset_token builds it
ResetToken(token_id, user_id, now) ==
    [token |-> token_id, user_id |-> user_id, created_at |-> now,
     expires_at |-> now + ResetTokenHours]

\* token_store.rs: TokenStore::new; next counts the token ids handed out
TokenStore_new == [tokens |-> EmptyMap, user_tokens |-> EmptyMap, next |-> 1]

\* create_reset_token keeping the previous token of the user
create_reset_token_keeps_old(ts, user_id, token_id, now) ==
    [ts EXCEPT !.tokens = insert(@, token_id, ResetToken(token_id, user_id, now)),
               !.user_tokens = insert(@, user_id, token_id)]

\* token_store.rs: create_reset_token, the block that holds both locks
create_reset_token(ts, user_id, token_id, now) ==
    LET tokens == IF user_id \in DOMAIN ts.user_tokens
                  THEN remove(ts.tokens, {ts.user_tokens[user_id]})
                  ELSE ts.tokens
    IN  [ts EXCEPT !.tokens = insert(tokens, token_id, ResetToken(token_id, user_id, now)),
                   !.user_tokens = insert(@, user_id, token_id)]

\* token_store.rs: get_reset_token
get_reset_token(ts, token) ==
    IF token \in DOMAIN ts.tokens
    THEN [some |-> TRUE, v |-> ts.tokens[token]]
    ELSE [some |-> FALSE, v |-> ResetToken(UnknownUuid, "", 0)]

\* consume_reset_token leaving the token in the store
consume_reset_token_keeps_token(ts, token) == ts

\* token_store.rs: consume_reset_token, the store it leaves; its result is
\* get_reset_token of the store it found
consume_reset_token(ts, token) ==
    IF token \in DOMAIN ts.tokens
    THEN [ts EXCEPT !.tokens = remove(@, {token}),
                    !.user_tokens = remove(@, {ts.tokens[token].user_id})]
    ELSE ts

\* is_token_valid accepting an expired token
is_token_valid_ignores_expiry(reset_token, now) == reset_token.some

\* token_store.rs: is_token_valid, with the reset token get_reset_token gave
\* and the time of the comparison
is_token_valid(reset_token, now) ==
    IF reset_token.some THEN reset_token.v.expires_at > now ELSE FALSE

\* token_store.rs: cleanup_expired_tokens
cleanup_expired_tokens(ts, now) ==
    LET expired_tokens == { t \in DOMAIN ts.tokens : ts.tokens[t].expires_at <= now }
    IN  [ts EXCEPT !.tokens = remove(@, expired_tokens),
                   !.user_tokens = remove(@, { ts.tokens[t].user_id : t \in expired_tokens })]

\* Utc::now() in hours, and the number of times it has moved
ClockStart == [now |-> 0, moves |-> 0]

\* the two RwLocks: the task that holds the write guard and the tasks that
\* hold a read guard
Free == [writer |-> "none", readers |-> {}]
Unlocked == [tokens |-> Free, user_tokens |-> Free]

\* the tasks that run operations of the TokenStore or serve reset requests
Procs == {"p1", "p2"}

\* what a task is doing: the operation and its position, its arguments (user,
\* presented token, new password), the values it holds (the token id and the
\* time it read, the reset token it got) and the outcome of the request
Operation(op, pc, user_id, token, password, now, got, outcome) ==
    [op |-> op, pc |-> pc, user_id |-> user_id, token |-> token,
     password |-> password, now |-> now, got |-> got, outcome |-> outcome]
NoOperation ==
    Operation("none", "idle", "", UnknownUuid, "", 0,
              get_reset_token(TokenStore_new, UnknownUuid), "none")

\* create_lock_order taking the user_tokens lock first
lock_order_user_tokens_first(op) ==
    IF op = "create" THEN <<"user_tokens", "tokens">>
    ELSE IF op \in {"consume", "cleanup"} THEN <<"tokens", "user_tokens">>
    ELSE <<"tokens">>

\* token_store.rs: the locks an operation takes, in the order it takes them:
\* write guards for create, consume and cleanup, one read guard for the rest
lock_order(op) ==
    IF op \in {"create", "consume", "cleanup"} THEN <<"tokens", "user_tokens">>
    ELSE <<"tokens">>
Writes(op) == op \in {"create", "consume", "cleanup"}

\* a task calls an operation of the TokenStore: create_reset_token reads the
\* token id and the time before it asks for a lock, cleanup the time
store_call(p, op, user_id, token) ==
    /\ procs[p].pc = "idle"
    /\ op = "create" => token_store.next <= MaxResetTokens
    /\ procs' = [procs EXCEPT ![p] =
           Operation(op, "lock1", user_id,
                     IF op = "create" THEN Uuid(token_store.next) ELSE token,
                     "", IF op \in {"create", "cleanup"} THEN clock.now ELSE 0,
                     NoOperation.got, "none")]
    /\ token_store' = [token_store EXCEPT
                         !.next = IF op = "create" THEN @ + 1 ELSE @]
    /\ UNCHANGED <<store, nextId, today, last, inflight, elig, dash, auth,
                   database, locks, clock>>

\* RwLock::write / RwLock::read: the task gets the next lock of its order
\* when no other task holds it against it
store_lock(p) ==
    /\ procs[p].pc \in {"lock1", "lock2"}
    /\ LET order == lock_order(procs[p].op)
           n == IF procs[p].pc = "lock1" THEN 1 ELSE 2
           l == order[n]
       IN  /\ locks[l].writer = "none"
           /\ Writes(procs[p].op) => locks[l].readers = {}
           /\ locks' = [locks EXCEPT ![l] =
                  IF Writes(procs[p].op)
                  THEN [@ EXCEPT !.writer = p]
                  ELSE [@ EXCEPT !.readers = @ \cup {p}]]
           /\ procs' = [procs EXCEPT ![p].pc =
                  IF n < Len(order) THEN "lock2" ELSE "locked"]
    /\ UNCHANGED <<store, nextId, today, last, inflight, elig, dash, auth,
                   database, token_store, clock>>

\* the body of the operation under its locks, and the release of the guards
\* at the end of the scope
store_run(p) ==
    /\ procs[p].pc = "locked"
    /\ LET o == procs[p] IN
       /\ token_store' =
              CASE o.op = "create" ->
                     create_reset_token(token_store, o.user_id, o.token, o.now)
                [] o.op = "consume" -> consume_reset_token(token_store, o.token)
                [] o.op = "cleanup" -> cleanup_expired_tokens(token_store, o.now)
                [] OTHER -> token_store
       /\ procs' = [procs EXCEPT ![p] =
              IF o.op = "valid"
              THEN [o EXCEPT !.pc = "compare", !.got = get_reset_token(token_store, o.token)]
              ELSE [NoOperation EXCEPT
                      !.op = o.op, !.user_id = o.user_id,
                      !.outcome = IF o.op # "consume" THEN "returned"
                                  ELSE IF get_reset_token(token_store, o.token).some
                                       THEN "some" ELSE "none"]]
    /\ locks' = [l \in DOMAIN locks |->
                    [writer |-> IF locks[l].writer = p THEN "none" ELSE locks[l].writer,
                     readers |-> locks[l].readers \ {p}]]
    /\ UNCHANGED <<store, nextId, today, last, inflight, elig, dash, auth,
                   database, clock>>

\* is_token_valid compares the expiry with Utc::now() after get_reset_token
\* returned
store_compare(p) ==
    /\ procs[p].pc = "compare"
    /\ procs' = [procs EXCEPT ![p] =
           [NoOperation EXCEPT !.op = "valid",
                               !.outcome = IF is_token_valid(procs[p].got, clock.now)
                                           THEN "valid" ELSE "invalid"]]
    /\ UNCHANGED <<store, nextId, today, last, inflight, elig, dash, auth,
                   database, token_store, locks, clock>>

\* Utc::now() moves by the life of a token: a token is then at the instant
\* of its expiry
ClockMoves == {ResetTokenHours}
clock_moves ==
    /\ clock.moves < MaxClockMoves
    /\ \E d \in ClockMoves : clock' = [now |-> clock.now + d, moves |-> clock.moves + 1]
    /\ UNCHANGED <<store, nextId, today, last, inflight, elig, dash, auth,
                   database, token_store, locks, procs>>

-----------------------------------------------------------------------------
(* Password resets: forgot_password and reset_password of main.rs *)

\* main.rs: forgot_password creates a reset token for the first member the
\* directory returns for the address, whatever the case of its letters; the
\* directory decides which member of a shared address comes first
forgot_password(email, user, f) ==
    /\ user \in get_members_by_email(to_lowercase(email))
    /\ token_store.next <= MaxResetTokens
    /\ token_store' =
           IF f = "directory" THEN token_store
           ELSE [create_reset_token(token_store, user, Uuid(token_store.next), clock.now)
                     EXCEPT !.next = @ + 1]
    /\ UNCHANGED <<store, nextId, today, last, inflight, elig, dash, auth,
                   database, locks, procs, clock>>

\* the messages of reset_password
InvalidResetToken == "Invalid or expired reset token"
ResetFailures ==
    {"Benutzer nicht gefunden", "Interner Serverfehler", "Datenbankfehler",
     "Passwort konnte nicht aktualisiert werden",
     "Benutzerkonto konnte nicht erstellt werden"}
ResetSuccess == "Passwort erfolgreich zurueckgesetzt"

\* reset_password writing the password before it consumes the token
reset_steps_write_first == <<"get", "compare", "lookup", "write", "consume">>

\* main.rs: the awaits of reset_password in the order of the code:
\* is_token_valid (get_reset_token, then the comparison with Utc::now()),
\* consume_reset_token, the member lookup, the database write
reset_steps == <<"get", "compare", "consume", "lookup", "write">>
\* the step that follows pc, "idle" after the last one: the request answers
\* with success
reset_next(pc) ==
    LET k == CHOOSE i \in 1..Len(reset_steps) : reset_steps[i] = pc
    IN  IF k < Len(reset_steps) THEN reset_steps[k + 1] ELSE "idle"
\* the request goes on to the next step, or answers
reset_goes_on(o, got) ==
    IF reset_next(o.pc) = "idle"
    THEN [o EXCEPT !.pc = "idle", !.got = got, !.outcome = ResetSuccess]
    ELSE [o EXCEPT !.pc = reset_next(o.pc), !.got = got]
reset_answers(o, message) == [o EXCEPT !.pc = "idle", !.outcome = message]

\* a reset_password request arrives with a token and a new password; a task
\* serves one request
reset_password(p, token, password) ==
    /\ procs[p].op = "none"
    /\ procs' = [procs EXCEPT ![p] =
           Operation("reset_password", reset_steps[1], "", token, password, 0,
                     NoOperation.got, "none")]
    /\ UNCHANGED <<store, nextId, today, last, inflight, elig, dash, auth,
                   database, token_store, locks, clock>>

\* is_token_valid: get_reset_token under the read lock
reset_get(p) ==
    /\ procs[p].op = "reset_password" /\ procs[p].pc = "get"
    /\ procs' = [procs EXCEPT ![p] =
           reset_goes_on(procs[p], get_reset_token(token_store, procs[p].token))]
    /\ UNCHANGED <<store, nextId, today, last, inflight, elig, dash, auth,
                   database, token_store, locks, clock>>

\* is_token_valid: the comparison with Utc::now(); an invalid token answers
reset_compare(p) ==
    /\ procs[p].op = "reset_password" /\ procs[p].pc = "compare"
    /\ LET o == [procs[p] EXCEPT !.now = clock.now] IN
       procs' = [procs EXCEPT ![p] =
           IF is_token_valid(o.got, clock.now)
           THEN reset_goes_on(o, o.got)
           ELSE reset_answers(o, InvalidResetToken)]
    /\ UNCHANGED <<store, nextId, today, last, inflight, elig, dash, auth,
                   database, token_store, locks, clock>>

\* consume_reset_token under both write locks; None answers
reset_consume(p) ==
    /\ procs[p].op = "reset_password" /\ procs[p].pc = "consume"
    /\ LET info == get_reset_token(token_store, procs[p].token) IN
       /\ token_store' = consume_reset_token(token_store, procs[p].token)
       /\ procs' = [procs EXCEPT ![p] =
              IF info.some THEN reset_goes_on(procs[p], info)
              ELSE reset_answers(procs[p], InvalidResetToken)]
    /\ UNCHANGED <<store, nextId, today, last, inflight, elig, dash, auth,
                   database, locks, clock>>

\* what the directory answers to the member lookup: the record, no record
\* (the member left the club), or an error
LookupAnswers == {"found", "absent", "error"}
\* get_member_by_id_with_projection for the user of the token
reset_lookup(p, answer) ==
    /\ procs[p].op = "reset_password" /\ procs[p].pc = "lookup"
    /\ LET o == procs[p] IN
       procs' = [procs EXCEPT ![p] =
           IF answer = "error" THEN reset_answers(o, "Interner Serverfehler")
           ELSE IF answer = "absent" \/ ~get_member_by_id(o.got.v.user_id).some
           THEN reset_answers(o, "Benutzer nicht gefunden")
           ELSE reset_goes_on([o EXCEPT !.user_id = o.got.v.user_id], o.got)]
    /\ UNCHANGED <<store, nextId, today, last, inflight, elig, dash, auth,
                   database, token_store, locks, clock>>

\* database.rs: get_user_by_email compares the addresses in lower case
get_user_by_email(db, email) == db[to_lowercase(email)] # NoPassword
\* database.rs: update_password, for the row get_user_by_email found
update_password(db, email, password) == [db EXCEPT ![to_lowercase(email)] = password]
\* database.rs: create_user stores the address in lower case
create_user(db, email, password) == [db EXCEPT ![to_lowercase(email)] = password]

\* which call of the database fails, if any: the lookup, or the write
WriteFaults == {"none", "lookup", "write"}
\* the database write of reset_password: update_password for an account
\* that exists, create_user otherwise
reset_write(p, f) ==
    /\ procs[p].op = "reset_password" /\ procs[p].pc = "write"
    /\ LET o == procs[p]
           email == EmailField(o.user_id)
           exists == get_user_by_email(database, email)
       IN  /\ database' =
                  IF f # "none" THEN database
                  ELSE IF exists THEN update_password(database, email, o.password)
                  ELSE create_user(database, email, o.password)
           /\ procs' = [procs EXCEPT ![p] =
                  IF f = "lookup" THEN reset_answers(o, "Datenbankfehler")
                  ELSE IF f = "write" /\ exists
                  THEN reset_answers(o, "Passwort konnte nicht aktualisiert werden")
                  ELSE IF f = "write"
                  THEN reset_answers(o, "Benutzerkonto konnte nicht erstellt werden")
                  ELSE reset_goes_on(o, o.got)]
    /\ UNCHANGED <<store, nextId, today, last, inflight, elig, dash, auth,
                   token_store, locks, clock>>

-----------------------------------------------------------------------------
(* The clock *)

Ticks == (today.year - StartYear) * 12 + today.month

\* chrono::Utc::now() moves to the next month
Tick ==
    /\ last = Idle
    /\ Ticks < MaxTicks
    /\ today' = IF today.month = 12
                THEN [year |-> today.year + 1, month |-> 1]
                ELSE [year |-> today.year, month |-> today.month + 1]
    /\ UNCHANGED <<store, nextId, last, inflight, elig, dash, acct>>

-----------------------------------------------------------------------------
(* Specifications *)

InitTable ==
    /\ store = {LegacyRecord}
    /\ nextId = 1
    /\ today = [year |-> StartYear - 1, month |-> 12]
    /\ last = Idle
    /\ inflight = [k \in Slots |-> NoRequest]
    /\ dash = DashIdle
    /\ auth = AuthInit
    /\ database = DatabaseInit
    /\ token_store = TokenStore_new
    /\ locks = Unlocked
    /\ procs = [p \in Procs |-> NoOperation]
    /\ clock = ClockStart

CreateWorkHour ==
    \E r \in Requests : create_work_hour(r.actor, r.payload, r.f)

UpdateWorkHour ==
    \E r \in Requests, id \in RequestIds : update_work_hour(r.actor, id, r.payload, r.f)

DeleteWorkHour ==
    \E r \in BodylessRequests, id \in RequestIds \ {0} :
        r.f \in {"none", "write"} /\ delete_work_hour(r.actor, id, r.f)

GetWorkHour ==
    \E r \in BodylessRequests, id \in RequestIds :
        r.f \in {"none", "member", "read"} /\ get_work_hour(r.actor, id, r.f)

CreateCheck ==
    \E k \in Slots, r \in OverlapRequests : create_check(k, r.actor, r.payload, r.f)

CreateFinish ==
    \E k \in Slots, f \in {"none", "write"} : create_finish(k, f)

\* requests that do not overlap
Init == InitTable /\ elig = EligIdle
Next ==
    \/ CreateWorkHour
    \/ UpdateWorkHour
    \/ DeleteWorkHour
    \/ GetWorkHour
    \/ Respond
    \/ Tick
Spec == Init /\ [][Next]_vars

\* create requests that overlap each other and delete requests
NextConc == CreateCheck \/ CreateFinish \/ DeleteWorkHour \/ Respond
SpecConc == Init /\ [][NextConc]_vars

\* the eligibility engine on every member record and year
InitElig ==
    /\ InitTable
    /\ \E y \in EligYears, b \in RawBirthFields :
       \E j \in RawJoinFields(y) :
         elig = [pc |-> "raw", year |-> y, raw_birth |-> b, raw_join |-> j,
                 birth_date |-> None, required |-> 0]
NextElig == FetchMember \/ DeserializeMember \/ ComputeRequired
SpecElig == InitElig /\ [][NextElig]_vars

\* axum Json<CreateWorkHourRequest>: the body becomes a payload when the hours
\* field deserializes, a rejection otherwise
deserialize_request(date, description, w) ==
    [json |-> string_or_f64(w).ok,
     date |-> IF string_or_f64(w).ok THEN date ELSE Null,
     desc |-> IF string_or_f64(w).ok THEN description ELSE "",
     hours |-> string_or_f64(w).v,
     stunden |-> w]

\* the hours field as it may arrive on the wire
WireHours ==
    { Number(Hundredths(h)) : h \in {250, 0, -100} }
    \cup { NumericString(Hundredths(h)) : h \in {250, 0, -100} }
    \cup {OtherString, NoStunden}

\* dates inside the year window of the first month of the clock
WireDates == {Plain(StartYear - 1, 12, 30), Plain(StartYear, 3, 5)}

SubmitCreate ==
    \E a \in Members, d \in WireDates, w \in WireHours :
        create_work_hour(a, deserialize_request(d, "mow", w), "none")

SubmitUpdate ==
    \E a \in Members, id \in RequestIds, d \in WireDates, w \in WireHours :
        update_work_hour(a, id, deserialize_request(d, "mow", w), "none")

\* submissions with every form of the hours field
NextWire == SubmitCreate \/ SubmitUpdate \/ Respond
SpecWire == Init /\ [][NextWire]_vars

\* a record of the work-hours table as the Records Service may hold it
Record(id, link, date, desc, hundredths) ==
    [id |-> id, link |-> link, date |-> date, desc |-> desc, stunden |-> hundredths]

\* tables the dashboard may find: entries of several members and years, dates
\* with a time of day, records without description or member, hours with
\* more than two decimals
DashTables ==
    { {LegacyRecord},
      { Record(101, LinkObject("recA"), Plain(StartYear, 3, 5), "mow", Hundredths(250)),
        Record(102, LinkString("recA"), DateTime(StartYear, 4, 6, 10, 0), "paint", Hundredths(450)),
        Record(104, LinkObject("recA"), Plain(StartYear - 1, 12, 30), "mow", Hundredths(450)),
        Record(105, LinkObject("recB"), Plain(StartYear, 3, 5), "mow", Hundredths(250)) },
      { Record(101, LinkObject("recA"), Plain(StartYear, 3, 5), "mow", Hundredths(250)),
        Record(103, LinkObject("recA"), DateTime(StartYear - 1, 12, 31, 23, 0), "mow", Hundredths(100)),
        Record(106, LinkObject("recA"), Plain(StartYear, 5, 1), NullDesc, Hundredths(100)),
        Record(109, LinkNull, Plain(StartYear, 3, 5), "mow", Hundredths(100)) },
      { Record(107, LinkObject("recA"), Plain(StartYear, 6, 1), "mow", Hundredths(33) + Cent \div 2),
        Record(108, LinkObject("recA"), Plain(StartYear, 6, 2), "mow", Hundredths(33) + Cent \div 2),
        Record(105, LinkObject("recB"), Plain(StartYear, 3, 5), "mow", Hundredths(250)) },
      { Record(102, LinkString("recA"), DateTime(StartYear, 4, 6, 10, 0), "paint", Hundredths(450)),
        Record(110, LinkObject("recA"), Plain(StartYear, 4, 7), "mow", Hundredths(450)),
        Record(111, LinkObject("recC"), Naive(StartYear, 4, 7, 10), "mow", Hundredths(100)) } }

DashYears == {StartYear - 1, StartYear}

\* the users that request a dashboard: the members of the directory and a
\* user with a valid token whose member record is gone
DashUsers == FamilyDirectory \cup {"recX"}

Dashboard ==
    \E user \in DashUsers, familie \in FamilyFields, year \in DashYears,
       family_members \in FamilyLists, f \in DashboardFaults :
        dashboard_personal(user, familie, year, family_members, f)

DashboardFamilyMember == \E fetch_ok \in BOOLEAN : dashboard_family_member(fetch_ok)

DashboardFamilyData == dashboard_family_data

DashboardRespond == dashboard_respond

\* a create request served while no dashboard is being computed
CreateBeforeDashboard ==
    /\ dash.pc = "idle"
    /\ \E p \in ValidPayloads : create_work_hour("recA", p, "none")

\* dashboards over the tables, and over what create requests add to them
InitDash ==
    /\ store \in DashTables
    /\ nextId = 1
    /\ today = [year |-> StartYear - 1, month |-> 12]
    /\ last = Idle
    /\ inflight = [k \in Slots |-> NoRequest]
    /\ elig = EligIdle
    /\ dash = DashIdle
    /\ auth = AuthInit
    /\ database = DatabaseInit
    /\ token_store = TokenStore_new
    /\ locks = Unlocked
    /\ procs = [p \in Procs |-> NoOperation]
    /\ clock = ClockStart
NextDash ==
    \/ Dashboard
    \/ DashboardFamilyMember
    \/ DashboardFamilyData
    \/ DashboardRespond
    \/ CreateBeforeDashboard
    \/ Respond
SpecDash == InitDash /\ [][NextDash]_vars

\* bounds of the sessions: moves of the clock and tokens issued
MaxAuthTicks == 2
MaxTokens == 2

\* the clock of the sessions moves by the lifetime of a selection token or of
\* an auth token: a token is presented at its expiry time and after it
AuthTick ==
    /\ auth.last = AuthIdle /\ dash.pc = "idle" /\ last = Idle
    /\ auth.ticks < MaxAuthTicks
    /\ \E d \in {SelectionTokenMinutes, AuthTokenMinutes} :
         auth' = [auth EXCEPT !.now = @ + d, !.ticks = @ + 1]
    /\ UNCHANGED <<store, nextId, today, last, inflight, elig, dash, database, resets>>

\* the tokens a client may present and the headers it may send
PresentableTokens == auth.issued \cup {ForgedToken, OldToken}
Headers == {NoHeader, BasicHeader} \cup { Bearer(t) : t \in PresentableTokens }

\* the requests of the sessions do not overlap
Quiet == auth.last = AuthIdle /\ dash.pc = "idle" /\ last = Idle

Login ==
    /\ Quiet
    /\ \E email \in Emails, password \in Passwords, f \in AuthFaults :
         login(email, password, f)
    /\ Cardinality(auth'.issued) <= MaxTokens

SelectMember ==
    /\ Quiet
    /\ \E member_id \in FamilyDirectory \cup {"recX"},
          presented \in PresentableTokens \cup {NoToken}, f \in {"none", "directory"} :
         select_member(member_id, presented, f)
    /\ Cardinality(auth'.issued) <= MaxTokens

\* a login that succeeds: of the member with an address of his own, and of
\* the address two members share
SignIn ==
    /\ Quiet
    /\ \E email \in {"solo@x.de", "Fam@X.de"} : login(email, "pw", "none")
    /\ Cardinality(auth'.issued) <= MaxTokens

AuthRespond == auth_respond

\* a request on a protected route with any header and any failing upstream
\* call; the handler serves it for the user the header authenticates
ProtectedGetUser ==
    /\ Quiet
    /\ \E op \in {"user", "verify-token"}, h \in Headers, f \in {"none", "member"} :
         get_user(op, authenticated_user(h, auth.now), f)

ProtectedDashboard ==
    /\ Quiet
    /\ \E h \in Headers, familie \in {NoFamily, SomeText("F")},
          f \in DashboardFaults :
         dashboard(authenticated_user(h, auth.now), familie, StartYear,
                   <<"recB", "recA">>, f)

ProtectedGet ==
    /\ Quiet
    /\ \E h \in Headers, id \in {0, 1}, f \in {"none", "member", "read"} :
         get_work_hour(authenticated_user(h, auth.now), id, f)

ProtectedCreate ==
    /\ Quiet
    /\ \E h \in Headers, f \in Upstream :
         create_work_hour(authenticated_user(h, auth.now), SamplePayload, f)

ProtectedUpdate ==
    /\ Quiet
    /\ \E h \in Headers, id \in {0, 1}, f \in Upstream :
         update_work_hour(authenticated_user(h, auth.now), id, SamplePayload, f)

ProtectedDelete ==
    /\ Quiet
    /\ \E h \in Headers, id \in {0, 1}, f \in {"none", "write"} :
         delete_work_hour(authenticated_user(h, auth.now), id, f)

\* the login flow, with every request and every failing call
NextAuth ==
    \/ Login
    \/ SelectMember
    \/ AuthRespond
    \/ AuthTick
SpecAuth == Init /\ [][NextAuth]_vars

\* the protected routes, with the headers of clients that signed in
NextRoutes ==
    \/ SignIn
    \/ AuthRespond
    \/ AuthTick
    \/ ProtectedGetUser
    \/ ProtectedDashboard
    \/ ProtectedGet
    \/ ProtectedCreate
    \/ ProtectedUpdate
    \/ ProtectedDelete
    \/ DashboardFamilyMember
    \/ DashboardFamilyData
    \/ DashboardRespond
    \/ Respond
SpecRoutes == Init /\ [][NextRoutes]_vars

\* the users that ask for reset tokens, and the token ids a caller may name
ResetUsers == {"recA", "recC"}
TokenIds == { Uuid(n) : n \in 0..MaxResetTokens }

CallCreate == \E p \in Procs, u \in ResetUsers : store_call(p, "create", u, UnknownUuid)
CallConsume == \E p \in Procs, t \in TokenIds : store_call(p, "consume", "", t)
CallCleanup == \E p \in Procs : store_call(p, "cleanup", "", UnknownUuid)
CallIsTokenValid == \E p \in Procs, t \in TokenIds : store_call(p, "valid", "", t)
StoreLock == \E p \in Procs : store_lock(p)
StoreRun == \E p \in Procs : store_run(p)
StoreCompare == \E p \in Procs : store_compare(p)
ClockMove == clock_moves

\* the operations of the TokenStore called by concurrent tasks
NextStore ==
    \/ CallCreate
    \/ CallConsume
    \/ CallCleanup
    \/ CallIsTokenValid
    \/ StoreLock
    \/ StoreRun
    \/ StoreCompare
    \/ ClockMove
SpecStore == Init /\ [][NextStore]_vars

\* the operations alone, while the clock stands still: the time decides what
\* an operation finds, never which lock it takes
NextStoreFair ==
    \/ CallCreate
    \/ CallConsume
    \/ CallCleanup
    \/ CallIsTokenValid
    \/ StoreLock
    \/ StoreRun
    \/ StoreCompare

\* fair scheduling: tokio's RwLock serves its waiters in the order they
\* arrived, and a task that can run does
SpecStoreFair ==
    /\ Init /\ [][NextStoreFair]_vars
    /\ \A p \in Procs : SF_vars(store_lock(p))
    /\ \A p \in Procs : WF_vars(store_run(p))
    /\ \A p \in Procs : WF_vars(store_compare(p))

\* a member of the directory who has no account yet
DatabaseWithoutSolo == [DatabaseInit EXCEPT !["solo@x.de"] = NoPassword]

InitReset ==
    /\ store = {LegacyRecord}
    /\ nextId = 1
    /\ today = [year |-> StartYear - 1, month |-> 12]
    /\ last = Idle
    /\ inflight = [k \in Slots |-> NoRequest]
    /\ elig = EligIdle
    /\ dash = DashIdle
    /\ auth = AuthInit
    /\ database = DatabaseWithoutSolo
    /\ token_store = TokenStore_new
    /\ locks = Unlocked
    /\ procs = [p \in Procs |-> NoOperation]
    /\ clock = ClockStart

ForgotPassword ==
    \E email \in {"Fam@X.de", "solo@x.de"}, user \in FamilyDirectory,
       f \in {"none", "directory"} :
        forgot_password(email, user, f)
\* a caller presents a token id that an email carried, or one nobody issued
ResetPassword ==
    \E p \in Procs, t \in TokenIds :
        /\ t.uuid < token_store.next
        /\ reset_password(p, t, "new")
ResetGet == \E p \in Procs : reset_get(p)
ResetCompare == \E p \in Procs : reset_compare(p)
ResetConsume == \E p \in Procs : reset_consume(p)
ResetLookup == \E p \in Procs, answer \in LookupAnswers : reset_lookup(p, answer)
ResetWrite == \E p \in Procs, f \in WriteFaults : reset_write(p, f)

\* password resets: requests for a token, and reset requests that overlap
NextReset ==
    \/ ForgotPassword
    \/ ResetPassword
    \/ ResetGet
    \/ ResetCompare
    \/ ResetConsume
    \/ ResetLookup
    \/ ResetWrite
    \/ ClockMove
SpecReset == InitReset /\ [][NextReset]_vars

-----------------------------------------------------------------------------
(* Properties *)

\* the member a record belongs to, and the date it shows
Owner(wh) == get_member_id(wh)
SameMemberAndDate(a, b) ==
    /\ Owner(a).some
    /\ Owner(a) = Owner(b)
    /\ read_datum(a.date) = read_datum(b.date)

\* the minimum allowed year, read off the clock
MinYear == IF today.month = 1 THEN today.year - 1 ELSE today.year

\* a submission that passes the field checks and the year window today
PassesFieldChecks(p) ==
    /\ p.json
    /\ p.date.kind = "plain" /\ ValidYMD(p.date.y, p.date.m, p.date.d)
    /\ p.desc # ""
    /\ p.hours > 0
PassesYearWindow(p) == p.date.y >= MinYear

\* C1: after requests that do not overlap, no two records of the table have
\* the same member and the same date.
C1_OneEntryPerMemberAndDate ==
    \A a \in store, b \in store : SameMemberAndDate(a, b) => a.id = b.id

\* C2: a create request that has passed its duplicate check is answered
\* without a second look at the table: its last step answers "created", and
\* then the table has one record more, or reports only the failed upstream
\* call; so two overlapping requests for one member and date both create.
C2_WriteNotGuardedByCheck ==
    [][\A k \in Slots :
         (inflight[k].busy /\ ~inflight'[k].busy) =>
            /\ last'.kind \in {"created", "created_upstream_failed"}
            /\ last'.kind = "created" =>
                 /\ Cardinality(store') = Cardinality(store) + 1
                 /\ \E wh \in store' \ store :
                      /\ Owner(wh) = SomeId(inflight[k].actor)
                      /\ wh.date = inflight[k].payload.date]_vars

\* C2 witness: the table holds two records of one member for one date
C2_Witness_TwoEntriesSameMemberAndDate ==
    \E a \in store, b \in store : SameMemberAndDate(a, b) /\ a.id # b.id

\* a record other than the one the latest request created that has the
\* latest request's member and date
PriorEntryForLast ==
    \E wh \in store :
        /\ wh.id # last.new_id
        /\ Owner(wh) = SomeId(last.actor)
        /\ read_datum(wh.date) = last.payload.date

\* C3: a create submission for a member and date that already has a record
\* creates none, whatever its description and hours; when it passes the field
\* checks and the year window and no upstream call fails, the answer is the
\* duplicate rejection.
C3_DuplicateRejected ==
    (last.op = "create" /\ PriorEntryForLast) =>
        /\ last.kind \notin {"created", "created_upstream_failed"}
        /\ (PassesFieldChecks(last.payload) /\ PassesYearWindow(last.payload)
                /\ last.f = "none")
             => last.kind = "duplicate"

\* C3 witness: a duplicate rejection of a submission whose description and
\* hours differ from those of the record already there
C3_Witness_DuplicateWithOtherContent ==
    /\ last.op = "create"
    /\ last.kind = "duplicate"
    /\ \E wh \in store :
         /\ Owner(wh) = SomeId(last.actor)
         /\ read_datum(wh.date) = last.payload.date
         /\ wh.desc # last.payload.desc
         /\ wh.stunden * SecondsPerHour # last.payload.hours

ValidationRejections ==
    {"bad_request", "missing_date", "missing_description", "invalid_hours",
     "bad_date_format", "year_grace", "year_strict", "duplicate"}

\* C4: a create or update request changes the table only when its submission
\* passes every check (date present and a calendar date, description present,
\* hours > 0, year in the window, and for create no record of the member on
\* the date); a request rejected by a check leaves the table as it was.
C4_NoWriteBeforeValidation ==
    [][(last = Idle /\ last'.op \in {"create", "update"}) =>
          /\ last'.kind \in ValidationRejections => store' = store
          /\ store' # store =>
               /\ PassesFieldChecks(last'.payload)
               /\ PassesYearWindow(last'.payload)
               /\ last'.op = "create" =>
                    ~\E wh \in store :
                        /\ Owner(wh) = SomeId(last'.actor)
                        /\ read_datum(wh.date) = last'.payload.date]_vars

\* C4 witness: an update rejected by the year check, the record it names
\* still in the table
C4_Witness_RejectedUpdate ==
    /\ last.op = "update"
    /\ last.kind = "year_strict"
    /\ \E wh \in store : wh.id = last.id /\ Owner(wh) = SomeId(last.actor)

\* C5: a delete request naming a record of another member leaves the record
\* in the table.
C5_DeleteOnlyOwnEntry ==
    [][(last = Idle /\ last'.op = "delete") =>
          \A wh \in store :
              (wh.id = last'.id /\ Owner(wh) # SomeId(last'.actor)) => wh \in store']_vars

\* record id that names another member's record, or one without a member
Foreign(actor, id) == \E wh \in store : wh.id = id /\ Owner(wh) # SomeId(actor)
\* record id the table does not hold
Absent(id) == ~\E wh \in store : wh.id = id
\* an id the Records Service never hands out
NeverId == MaxEntries + 1

\* C6: a get or update request on a record of another member, or without a
\* member, is answered as the same request on an id the table does not hold
\* is answered, and an update of either kind leaves the table as it was.
C6_DeniedLikeAbsent ==
    [][(last = Idle /\ last'.op \in {"get", "update"}) =>
          /\ Foreign(last'.actor, last'.id) =>
               last'.kind =
                 IF last'.op = "update"
                 THEN update_validate(last'.actor, NeverId, last'.payload, last'.f)
                 ELSE get_work_hour_response(last'.actor, NeverId, last'.f)
          /\ (last'.op = "update"
                /\ (Foreign(last'.actor, last'.id) \/ Absent(last'.id)))
               => store' = store /\ last'.kind # "updated"]_vars

\* C6 witness: an update of another member's record, answered as not found
C6_Witness_ForeignUpdateDenied ==
    /\ last.op = "update"
    /\ last.kind = "not_found_or_denied"
    /\ \E wh \in store :
         wh.id = last.id /\ Owner(wh).some /\ Owner(wh) # SomeId(last.actor)

\* the birth date is a calendar date, plain or with a time and an offset
BirthParses(s) == s.kind \in {"plain", "datetime"} /\ ValidYMD(s.y, s.m, s.d)
\* the year of the birth date; of a date-time, the year of its instant in UTC
BirthYearOf(s) ==
    IF s.kind = "datetime" /\ s.m = 1 /\ s.d = 1 /\ s.hh - s.off < 0 THEN s.y - 1
    ELSE IF s.kind = "datetime" /\ s.m = 12 /\ s.d = 31 /\ s.hh - s.off >= 24 THEN s.y + 1
    ELSE s.y
AgeExempt(s, y) == y - BirthYearOf(s) < 17 \/ y - BirthYearOf(s) >= 70

C8_FailOpen ==
    (elig.pc = "done" /\ ~BirthParses(elig.raw_birth)) => elig.required = 8

\* C8 witness: a birth date that is no calendar date
C8_Witness_UnparseableBirthDate ==
    /\ elig.pc = "done"
    /\ elig.raw_birth.kind = "plain"
    /\ ~BirthParses(elig.raw_birth)
    /\ elig.required = 8

\* the join date is on or after July 1 of year y
JoinedLate(j, y) ==
    /\ j.kind = "plain" /\ ValidYMD(j.y, j.m, j.d)
    /\ j.y > y \/ (j.y = y /\ j.m >= 7)

\* C9: a member who is not age-exempt and joined on or after July 1 of year
\* y owes 0 hours for y.
C9_LateEntryOwesNothing ==
    (/\ elig.pc = "done"
     /\ BirthParses(elig.raw_birth) /\ ~AgeExempt(elig.raw_birth, elig.year)
     /\ JoinedLate(elig.raw_join, elig.year))
        => elig.required = 0

\* the latest request reached the year check of create or update
ReachedYearCheck ==
    /\ last.op \in {"create", "update"}
    /\ last.actor # NoAuth
    /\ PassesFieldChecks(last.payload)

\* C10: a submission that reaches the year check is rejected by it exactly
\* when its year is below the minimum allowed year, which is the year before
\* the current one in January and the current year in every other month; the
\* January rejection names the grace period.
C10_YearWindow ==
    ReachedYearCheck =>
        /\ last.kind \in {"year_grace", "year_strict"} <=> last.payload.date.y < MinYear
        /\ last.kind = "year_grace" => today.month = 1
        /\ last.kind = "year_strict" => today.month # 1

\* C10 witness: in January a submission dated in the year before is created
C10_Witness_JanuaryGrace ==
    /\ today.month = 1
    /\ last.op = "create"
    /\ last.kind = "created"
    /\ last.payload.date.y = today.year - 1

\* the first check a submission violates, in the order date (present and a
\* calendar date), description, hours, year window, duplicate; 0 when none
FirstViolatedCheck(actor, p) ==
    IF p.date.kind = "empty" \/ ~NaiveDate_parse_from_str(p.date).ok THEN 1
    ELSE IF p.desc = "" THEN 2
    ELSE IF p.hours <= 0 THEN 3
    ELSE IF p.date.y < MinYear THEN 4
    ELSE IF \E wh \in store : /\ wh.id # last.new_id
                              /\ Owner(wh) = SomeId(actor)
                              /\ read_datum(wh.date) = p.date
    THEN 5
    ELSE 0

\* the responses that report a violated check; the create handler answers
\* the first three with a bare 400
ResponsesOfCheck(k, p) ==
    CASE k = 1 -> IF p.date.kind = "empty" THEN {"missing_date", "bad_request"}
                  ELSE {"bad_date_format"}
      [] k = 2 -> {"missing_description", "bad_request"}
      [] k = 3 -> {"invalid_hours", "bad_request"}
      [] k = 4 -> {"year_grace", "year_strict"}
      [] OTHER -> {"duplicate"}

\* C11: a submission that violates one of the checks date, description,
\* hours, year window is answered with the rejection of the first check it
\* violates in that order; so is a create submission that violates only the
\* duplicate check.
C11_FirstViolatedCheckReported ==
    (/\ last.op \in {"create", "update"}
     /\ last.actor \in Members
     /\ last.payload.json
     /\ last.f = "none"
     /\ FirstViolatedCheck(last.actor, last.payload) \in
            (IF last.op = "create" THEN 1..5 ELSE 1..4))
        => last.kind \in ResponsesOfCheck(FirstViolatedCheck(last.actor, last.payload),
                                          last.payload)

\* the responses whose body says "success": true
SuccessResponses == {"created", "created_upstream_failed", "updated", "deleted", "found"}

\* C20: a create request whose record the Records Service did not store is
\* not answered with a success.
C20_FailedCreateNotReportedAsSuccess ==
    [][(last = Idle /\ last'.op = "create" /\ store' = store) =>
          last'.kind \notin SuccessResponses]_vars

\* the hours field of the latest submission is no number, or a number <= 0
HoursRejectable(p) ==
    \/ p.stunden.tag \in {"other_string", "null"}
    \/ p.stunden.tag \in {"number", "numeric_string"} /\ p.stunden.v <= 0
HoursRejections == {"bad_request", "invalid_hours", "invalid_json"}

PersonalDone == dash.pc \in {"family", "done"} /\ dash.computed

\* the year of a record's normalized date
NormalizedYear(r) == read_datum(r.date).y

\* the complete records of a member whose normalized date is in the year
EntriesOf(member, year) ==
    { r \in store : /\ Owner(r) = SomeId(member)
                    /\ r.date.kind # "null" /\ r.desc # NullDesc
                    /\ read_datum(r.date).kind = "plain"
                    /\ NormalizedYear(r) = year }

\* the hours an entry shows: the stored hours rounded to 2 decimals
ShownHours(r) == round_to_2_decimals(r.stunden)

RECURSIVE SumShownHours(_)
SumShownHours(records) ==
    IF records = {} THEN 0
    ELSE LET r == CHOOSE x \in records : TRUE
         IN  ShownHours(r) + SumShownHours(records \ {r})

\* C13: the personal total of the dashboard for (member, year) is the sum,
\* rounded to 2 decimals, of the hours of exactly the member's entries whose
\* date is in the year, and those are the entries listed.
C13_PersonalTotal ==
    PersonalDone =>
        /\ { e.id : e \in dash.personal.entries }
               = { r.id : r \in EntriesOf(dash.user, dash.year) }
        /\ dash.personal.hours
               = round_to_2_decimals(SumShownHours(EntriesOf(dash.user, dash.year)))

\* C13 witness: a total of 7.0 hours from two entries while the table also
\* holds an entry of the member in another year and an entry of another member
C13_Witness_OtherYearAndMemberExcluded ==
    /\ dash.pc = "done"
    /\ dash.personal.hours = Hundredths(700)
    /\ Cardinality(dash.personal.entries) = 2
    /\ \E r \in store : Owner(r) = SomeId(dash.user) /\ NormalizedYear(r) # dash.year
    /\ \E r \in store : Owner(r).some /\ Owner(r) # SomeId(dash.user)
                        /\ NormalizedYear(r) = dash.year

\* C14: in every family summary remaining = max(required - completed, 0); it
\* is never negative and is 0 when completed >= required.
C14_Remaining ==
    dash.family.some =>
        LET f == dash.family IN
        /\ f.remaining = (IF f.required - f.completed > 0
                          THEN f.required - f.completed ELSE 0)
        /\ f.remaining >= 0
        /\ f.completed >= f.required => f.remaining = 0

\* C14 witness: a family that completed more than it owes
C14_Witness_OverCompleted ==
    /\ dash.family.some
    /\ dash.family.required > 0
    /\ dash.family.completed > dash.family.required
    /\ dash.family.remaining = 0

\* the percentage is the number n
PercentageIs(pct, n) == pct.num = n * pct.den

\* C15: in every family summary with required_total = 0 the percentage is
\* 100, whatever was completed.
C15_PercentageWhenNothingRequired ==
    (dash.family.some /\ dash.family.required = 0) =>
        PercentageIs(dash.family.percentage, 100)

\* C15 witness: a family of one exempt member who completed hours
C15_Witness_ExemptFamilyWithHours ==
    /\ dash.family.some
    /\ Len(dash.family.members) > 0
    /\ dash.family.required = 0
    /\ dash.family.completed > 0
    /\ PercentageIs(dash.family.percentage, 100)

RECURSIVE SumContributionHours(_, _)
SumContributionHours(contributions, n) ==
    IF n = 0 THEN 0
    ELSE contributions[n].hours + SumContributionHours(contributions, n - 1)

\* C16: in every family summary with required_total > 0, completed_total is
\* the sum of the members' hours rounded to 2 decimals, and the percentage
\* has 2 decimals (percentage x 100 is a whole number).
C16_FamilyRounding ==
    (dash.family.some /\ dash.family.required > 0) =>
        LET f == dash.family IN
        /\ f.completed = round_to_2_decimals(
               SumContributionHours(f.member_contributions, Len(f.member_contributions)))
        /\ (f.percentage.num * 100) % f.percentage.den = 0

RECURSIVE SumContributionRequired(_, _)
SumContributionRequired(contributions, n) ==
    IF n = 0 THEN 0
    ELSE contributions[n].required + SumContributionRequired(contributions, n - 1)

\* C17: the member list and the contribution list of a family summary have
\* one element per family member, in the order the directory returned them,
\* and required_total is the sum of the members' required hours.
C17_FamilyOrder ==
    dash.family.some =>
        LET f == dash.family
            fm == dash.family_members
        IN  /\ Len(f.members) = Len(fm)
            /\ Len(f.member_contributions) = Len(fm)
            /\ \A i \in DOMAIN fm :
                 /\ f.members[i] = fm[i].id
                 /\ f.member_contributions[i].id = fm[i].id
                 /\ f.member_contributions[i].required =
                      WholeHours(get_required_hours_for_member(fm[i].birth_date, dash.year))
            /\ f.required = SumContributionRequired(f.member_contributions, Len(fm))

\* C17 witness: a family of three in the order recC, recA, recB
C17_Witness_ThreeMembersInOrder ==
    /\ dash.family.some
    /\ dash.family.members = <<"recC", "recA", "recB">>
    /\ dash.family.required = WholeHours(2 * StandardHours)

\* C18: an entry created with h hours is shown by the dashboard of its member
\* and year with h hours, rounded to 2 decimals.
C18_HoursRoundTrip ==
    (/\ last.op = "create" /\ last.kind = "created"
     /\ PersonalDone
     /\ dash.user = last.actor
     /\ dash.year = last.payload.date.y)
        => \E e \in dash.personal.entries :
               /\ e.id = last.new_id
               /\ e.duration_hours = round_to_2_decimals(last.payload.hours)

\* the date a record has written in its Datum field
WrittenDate(r) == Plain(r.date.y, r.date.m, r.date.d)

\* C19: the date of every entry shown is the calendar date written in the
\* record, without the time of day and the offset, and normalizing it again
\* changes nothing.
C19_DateNormalization ==
    PersonalDone =>
        \A e \in dash.personal.entries : \A r \in store :
            (r.id = e.id /\ r.date.kind \in {"plain", "naive", "datetime"}) =>
                /\ e.date = WrittenDate(r)
                /\ date_norm(read_datum(e.date)) = e.date

\* the dashboard request has its response
DashboardAnswered == dash.pc = "done"

\* the responses of the dashboard that report an error
DashboardErrors == {"server_error", "service_unavailable"}

\* C21: a dashboard request whose member lookup or whose fetch of the user's
\* own work hours fails is answered with an error status and no dashboard
\* body, one whose member is absent with not-found, and a success response is
\* given only when both fetches succeeded.
C21_DashboardFetchFailures ==
    DashboardAnswered =>
        /\ dash.f = "member" =>
               dash.status \in DashboardErrors /\ ~dash.body
        /\ (dash.f = "hours" /\ dash.user \in FamilyDirectory) =>
               dash.status \in DashboardErrors /\ ~dash.body
        /\ (dash.f # "member" /\ dash.user \notin FamilyDirectory) =>
               dash.status = "not_found" /\ ~dash.body
        /\ dash.status = "ok" =>
               /\ dash.f \notin {"member", "hours"}
               /\ dash.user \in FamilyDirectory
               /\ dash.body /\ dash.computed

\* C21 witness: the fetch of the work hours of a member who has entries in
\* the year fails and the answer is an error without a body
C21_Witness_OwnHoursFetchFails ==
    /\ DashboardAnswered
    /\ dash.f = "hours"
    /\ dash.user \in FamilyDirectory
    /\ EntriesOf(dash.user, dash.year) # {}
    /\ dash.status = "server_error"
    /\ ~dash.body

\* C22: once the personal data of a dashboard request are computed, the
\* response succeeds and carries them whatever family fetch fails afterwards,
\* and a family member whose entries could not be fetched counts with no
\* entries and no hours.
C22_FamilyFailureKeepsPersonalData ==
    (DashboardAnswered /\ dash.computed) =>
        /\ dash.status = "ok"
        /\ dash.body
        /\ \A i \in dash.failed :
               /\ dash.family.member_contributions[i].entries = {}
               /\ dash.family.member_contributions[i].hours = 0

\* the token is one create_selection_token makes, one create_token makes
IsSelectionToken(t) == t = create_selection_token(t.sub, t.exp - SelectionTokenMinutes)
IsAuthToken(t) == t = create_token(t.sub, t.iat)

\* the operations of the protected routes that answer through an exchange
ProtectedOps == {"user", "verify-token", "get", "create", "update", "delete"}

\* the header carries a bearer token that passes verification
BearerVerified(header) ==
    header.present /\ header.bearer /\ verify_token(header.token, auth.now).ok

\* C23: on every protected route a request without a bearer header, or with a
\* token that fails verification, is stopped by the middleware, is served for
\* no user, and is answered 401 whatever upstream call would fail, with the
\* work-hours table left as it was.
C23_ProtectedRoutesNeedBearer ==
    [][/\ \A h \in Headers :
            ~BearerVerified(h) =>
                /\ auth_middleware(h, auth.now) = "unauthorized"
                /\ authenticated_user(h, auth.now) = NoAuth
       /\ (last' # last /\ last'.op \in ProtectedOps /\ last'.actor = NoAuth) =>
            /\ last'.kind = "unauthorized"
            /\ store' = store
       /\ (dash' # dash /\ dash'.pc = "done" /\ dash'.user = NoAuth) =>
            /\ dash'.status = "unauthorized"
            /\ ~dash'.body /\ ~dash'.computed
            /\ store' = store]_vars

\* C23 witness: a create request with a forged token and a failing member
\* lookup is answered 401 while the table holds an entry
C23_Witness_ForgedTokenRejected ==
    /\ last.op = "create"
    /\ last.actor = NoAuth
    /\ last.f = "member"
    /\ last.kind = "unauthorized"
    /\ store # {LegacyRecord}
    /\ ~BearerVerified(Bearer(ForgedToken))
    /\ \E t \in auth.issued : IsAuthToken(t) /\ ~BearerVerified(Bearer(t))

\* a selection token of the server that has not expired
ValidSelectionToken(t) ==
    /\ t \in auth.issued
    /\ t.typ = "selection"
    /\ t.exp >= auth.now

\* the member exists and has the address, whatever the case
HasEmail(member_id, email) ==
    /\ member_id \in FamilyDirectory
    /\ to_lowercase(EmailField(member_id)) = to_lowercase(email)

\* C24: login issues no auth token when several members share the address;
\* select_member issues an auth token for a member only on a valid unexpired
\* selection token whose address is the member's, whatever the case; with a
\* missing or invalid token, an unknown member or another address it answers
\* 401 and issues no auth token.
C24_MemberSelection ==
    LET x == auth.last IN
    /\ (x.route = "login" /\ Cardinality(get_members_by_email(x.email)) > 1) =>
           x.token = NoToken
    /\ (x.route = "select" /\ x.token # NoToken) =>
           /\ ValidSelectionToken(x.presented)
           /\ HasEmail(x.member_id, x.presented.sub)
           /\ x.token = create_token(x.member_id, auth.now)
           /\ x.status = "ok"
    /\ (x.route = "select" /\ ~ValidSelectionToken(x.presented)) =>
           x.status = "unauthorized" /\ x.token = NoToken
    /\ (x.route = "select" /\ ValidSelectionToken(x.presented) /\ x.f = "none"
          /\ ~HasEmail(x.member_id, x.presented.sub)) =>
           x.status = "unauthorized" /\ x.token = NoToken

\* C24 witness: login with the shared address written with capitals gave a
\* selection token and no auth token, and select_member then issued the auth
\* token of recA, whose address has capitals
C24_Witness_SelectedAfterSharedLogin ==
    /\ auth.last.route = "select"
    /\ auth.last.member_id = "recA"
    /\ auth.last.presented.sub = "fam@x.de"
    /\ auth.last.status = "ok"
    /\ auth.last.token.sub = "recA"
    /\ Cardinality(get_members_by_email(auth.last.presented.sub)) = 2

\* C30: a selection token issued by login is not accepted as the bearer token
\* of a protected route, and an auth token is not accepted as a selection
\* token by verify_selection_token and select_member.
C30_TokenKindsNotInterchangeable ==
    /\ \A t \in auth.issued :
         /\ IsSelectionToken(t) =>
              /\ ~verify_token(t, auth.now).ok
              /\ auth_middleware(Bearer(t), auth.now) = "unauthorized"
              /\ authenticated_user(Bearer(t), auth.now) = NoAuth
         /\ IsAuthToken(t) => ~verify_selection_token(t, auth.now).ok
    /\ (auth.last.route = "select" /\ IsAuthToken(auth.last.presented)) =>
         auth.last.status = "unauthorized" /\ auth.last.token = NoToken

\* C30 witness: while a selection token and an auth token are both unexpired,
\* select_member is given the auth token of a member and answers 401
C30_Witness_AuthTokenAsSelectionToken ==
    /\ \E t \in auth.issued : IsSelectionToken(t) /\ t.exp >= auth.now
    /\ auth.last.route = "select"
    /\ auth.last.presented \in auth.issued
    /\ IsAuthToken(auth.last.presented)
    /\ auth.last.presented.exp >= auth.now
    /\ auth.last.member_id = auth.last.presented.sub
    /\ auth.last.status = "unauthorized"

\* the users that have an entry in user_tokens, the tokens in tokens
UsersWithToken == DOMAIN token_store.user_tokens
StoredTokens == DOMAIN token_store.tokens

\* C26: after any interleaving of create_reset_token, consume_reset_token and
\* cleanup_expired_tokens the two maps agree: user_tokens[u] = t exactly when
\* tokens holds t with user_id u; so a user has at most one stored token, and
\* a new token for a user makes the previous one invalid.
C26_MapsConsistent ==
    /\ \A u \in UsersWithToken :
         /\ token_store.user_tokens[u] \in StoredTokens
         /\ token_store.tokens[token_store.user_tokens[u]].user_id = u
    /\ \A t \in StoredTokens :
         /\ token_store.tokens[t].user_id \in UsersWithToken
         /\ token_store.user_tokens[token_store.tokens[t].user_id] = t
         /\ token_store.tokens[t].token = t
    /\ \A t1, t2 \in StoredTokens :
         token_store.tokens[t1].user_id = token_store.tokens[t2].user_id => t1 = t2

\* C26 witness: both tasks created a token for the same user, and only the
\* second token is stored
C26_Witness_SecondTokenReplacedFirst ==
    /\ \A p \in Procs : /\ procs[p].op = "create"
                        /\ procs[p].outcome = "returned"
                        /\ procs[p].user_id = "recA"
    /\ StoredTokens = {Uuid(2)}
    /\ token_store.user_tokens["recA"] = Uuid(2)

\* the lock order: whoever writes user_tokens holds the write guard of
\* tokens, and nobody reads user_tokens
LockOrder ==
    /\ locks.user_tokens.writer # "none" =>
           locks.tokens.writer = locks.user_tokens.writer
    /\ locks.user_tokens.readers = {}
    /\ \A p \in Procs :
         (procs[p].pc \in {"lock1", "lock2", "locked"} /\ ~Writes(procs[p].op)) =>
             locks.tokens.writer # p /\ locks.user_tokens.writer # p

\* C28: the operations take the tokens lock before the user_tokens lock, the
\* read-only ones only the tokens lock, and under fair scheduling every
\* operation that was started completes.
C28_NoDeadlock ==
    /\ []LockOrder
    /\ \A p \in Procs : (procs[p].pc # "idle") ~> (procs[p].pc = "idle")

\* C28 witness: a task waits for the tokens lock while another task holds
\* both write guards
C28_Witness_WaitingForLock ==
    \E p, q \in Procs :
        /\ p # q
        /\ procs[p].pc = "lock1" /\ Writes(procs[p].op)
        /\ locks.tokens.writer = q /\ locks.user_tokens.writer = q

\* the reset_password requests, and those past consume_reset_token with the
\* token in hand
Resetting(p) == procs[p].op = "reset_password"
Consumed(p) ==
    /\ Resetting(p)
    /\ \/ procs[p].pc \in {"lookup", "write"}
       \/ procs[p].outcome \in ResetFailures \cup {ResetSuccess}
Answered(p) == Resetting(p) /\ procs[p].pc = "idle"

\* C25: reset_password changes or creates a password only for a token that
\* was in the token store and unexpired when it was checked (expires_at >
\* now, 24 hours after its creation); for an unknown or an expired token it
\* answers "Invalid or expired reset token" and leaves the credential store
\* and the token store as they are.
C25_ResetNeedsValidToken ==
    [][ /\ \A t \in StoredTokens :
             token_store.tokens[t].expires_at =
                 token_store.tokens[t].created_at + ResetTokenHours
        /\ database' # database =>
             \E p \in Procs :
                 /\ Resetting(p) /\ procs[p].pc = "write"
                 /\ procs'[p].outcome = ResetSuccess
                 /\ procs[p].got.some
                 /\ procs[p].got.v.token = procs[p].token
                 /\ procs[p].got.v.expires_at > procs[p].now
        /\ \A p \in Procs :
             ( /\ Resetting(p) /\ procs[p].pc = "compare"
               /\ procs'[p] # procs[p]
               /\ \/ ~procs[p].got.some
                  \/ procs[p].got.v.expires_at <= clock.now )
             => /\ procs'[p].pc = "idle"
                /\ procs'[p].outcome = InvalidResetToken
                /\ database' = database
                /\ token_store' = token_store
      ]_vars

\* C25 witness: an expired token was rejected and is still stored, while a
\* request with a valid token has set the password of its user
C25_Witness_ExpiredRejectedValidWritten ==
    \E p, q \in Procs :
        /\ Answered(p) /\ procs[p].outcome = InvalidResetToken
        /\ procs[p].got.some /\ procs[p].got.v.expires_at <= procs[p].now
        /\ procs[p].token \in StoredTokens
        /\ Answered(q) /\ procs[q].outcome = ResetSuccess
        /\ database["fam@x.de"] = "new"

\* C27: a reset token is used once: of the reset_password requests that
\* present the same token, whatever their interleaving, at most one gets
\* the token from consume_reset_token and writes a password; every other
\* one is answered "Invalid or expired reset token".
C27_TokenSingleUse ==
    \A p, q \in Procs :
        (p # q /\ Resetting(p) /\ Resetting(q) /\ procs[p].token = procs[q].token) =>
            /\ ~(Consumed(p) /\ Consumed(q))
            /\ (Consumed(p) /\ Answered(q)) => procs[q].outcome = InvalidResetToken

\* C27 witness: two requests presented the same token, both found it valid,
\* one reset the password and the other was refused at consume_reset_token
C27_Witness_SecondRequestRefused ==
    \E p, q \in Procs :
        /\ p # q /\ procs[p].token = procs[q].token
        /\ Answered(p) /\ procs[p].outcome = ResetSuccess
        /\ Answered(q) /\ procs[q].outcome = InvalidResetToken
        /\ procs[q].got.some /\ procs[q].got.v.expires_at > procs[q].now

\* C29: reset_password consumes the token before the member lookup and the
\* password write: a password is written only by a request that consumed
\* the token it presented; when a later step fails (member not found,
\* directory error, database error) the password is unchanged and the token
\* stays consumed, and a retry with the same token is rejected.
C29_ConsumedBeforeWrite ==
    [][ /\ database' # database =>
             \E p \in Procs :
                 /\ Consumed(p) /\ procs[p].pc = "write"
                 /\ procs[p].got.some /\ procs[p].got.v.token = procs[p].token
                 /\ procs[p].token \notin StoredTokens
        /\ \A p \in Procs :
             (Resetting(p) /\ procs[p].outcome = "none"
                 /\ procs'[p].outcome \in ResetFailures) =>
                 /\ database' = database
                 /\ procs[p].token \notin DOMAIN token_store'.tokens
        /\ \A p, q \in Procs :
             (p # q /\ Answered(p) /\ procs[p].outcome \in ResetFailures) =>
                 /\ procs[p].token \notin StoredTokens
                 /\ (Answered(q) /\ procs[q].token = procs[p].token) =>
                        procs[q].outcome = InvalidResetToken
      ]_vars

\* C29 witness: a request consumed its token and failed afterwards, the
\* passwords are as they were, and a later request with the same token
\* found no token
C29_Witness_RetryAfterFailureRejected ==
    \E p, q \in Procs :
        /\ p # q /\ procs[p].token = procs[q].token
        /\ Answered(p) /\ procs[p].outcome \in ResetFailures
        /\ Answered(q) /\ procs[q].outcome = InvalidResetToken
        /\ ~procs[q].got.some
        /\ database = DatabaseWithoutSolo

====
